---- MODULE Spec2Model ----
(***************************************************************************)
(* Model of the momento-backend response cache (utils/cache.js), the       *)
(* caching middleware (middleware/cache.js) and the route handlers that    *)
(* read through it and invalidate it.                                      *)
(*                                                                         *)
(* Strings that the code inspects character by character (cache keys,      *)
(* patterns) are sequences of one-character strings, so that startsWith    *)
(* and replace are computed, not assumed.  Response payloads are records.  *)
(* Time is counted in ticks of the clock read by Date.now().               *)
(***************************************************************************)
EXTENDS Integers, Sequences, FiniteSets, TLC

VARIABLES
    cache,      \* the Map of utils/cache.js, in insertion order
    now,        \* Date.now()
    last,       \* the most recent direct cache call: its name, argument
                \* and return value
    users,      \* the users collection of the store
    posts,      \* the posts collection of the store
    nextPost,   \* the index in PostIdSeq of the id createPost hands out next
    notifications, \* the notifications collection of the store
    messages,   \* the conversations collection of the store
    follows,    \* the follows collection of the store
    req,        \* per request slot: where its handler is suspended, and
                \* the handler's local variables
    resp,       \* per request slot: the response sent for its last request
    io,         \* per route module: whether it was given the socket server
    sockets,    \* per connection of the socket server: whether it is open,
                \* and the rooms it joined
    userSockets, \* the Map userSockets of index.js, in insertion order
    inbox,      \* per connection: the events it received, in order
    sent,       \* the events emitted to the socket rooms so far
    fault       \* the injected failures: Map.delete throws, emit throws

storeVars == <<users, posts, nextPost, notifications, messages, follows>>
wiring == <<io, sockets, userSockets>>
ioVars == <<wiring, inbox>>
appVars == <<storeVars, req, resp, ioVars, sent, fault>>
vars == <<cache, now, last, appVars>>

(***************************************************************************)
(* Bounds                                                                  *)
(***************************************************************************)
\* MAX_CACHE_SIZE is 1000 in the source; the model keeps the eviction
\* arithmetic (floor(MAX_CACHE_SIZE * 0.1)) and scales the capacity down.
MAX_CACHE_SIZE == 10
\* the clock stops here
MaxTime == 3
\* time-to-live arguments of direct cache.set calls
MaxTtl == 2
\* the sign-ins of one user that are counted; everybody has signed in once
MaxLogins == 2
\* the messages that are sent
MaxMessages == 2
\* the clock of the runs that let the entries of every route expire; the
\* longest ttl is TTL_USER, 5
MaxAge == 6
\* a like is accepted while every connection has received fewer events
MaxInbox == 3

(***************************************************************************)
(* Strings                                                                 *)
(***************************************************************************)
Colon == <<":">>
Star == <<"*">>
S_user == <<"u", "s", "e", "r">>
S_post == <<"p", "o", "s", "t">>
S_posts == <<"p", "o", "s", "t", "s">>

\* String.prototype.startsWith
startsWith(s, prefix) ==
    /\ Len(prefix) <= Len(s)
    /\ SubSeq(s, 1, Len(prefix)) = prefix

\* String.prototype.replace(ch, ''): removes the first occurrence only
replaceFirst(s, ch) ==
    IF \E i \in 1..Len(s) : s[i] = ch
    THEN LET i == CHOOSE j \in 1..Len(s) :
                      /\ s[j] = ch
                      /\ \A m \in 1..(j - 1) : s[m] # ch
         IN  SubSeq(s, 1, i - 1) \o SubSeq(s, i + 1, Len(s))
    ELSE s

\* the null of a missing or expired entry
Null == [null |-> TRUE]

(***************************************************************************)
(* utils/cache.js                                                          *)
(***************************************************************************)
getCacheKey(prefix, id) == prefix \o Colon \o id

\* Map helpers: the cache is a sequence of [key, data, expiresAt, createdAt]
\* in insertion order, one element per key
mapKeys(c) == {c[i].key : i \in 1..Len(c)}
mapHas(c, key) == \E i \in 1..Len(c) : c[i].key = key
mapIndex(c, key) == CHOOSE i \in 1..Len(c) : c[i].key = key
mapGet(c, key) == c[mapIndex(c, key)]
\* Map.prototype.delete
mapDelete(c, key) == SelectSeq(c, LAMBDA e : e.key # key)
\* Map.prototype.set: an existing key keeps its position
mapSet(c, entry) ==
    IF mapHas(c, entry.key)
    THEN [c EXCEPT ![mapIndex(c, entry.key)] = entry]
    ELSE Append(c, entry)

\* get with the expiry test off by one: an entry is dropped at expiresAt
get_expiresEarly(c, t, key) ==
    IF ~mapHas(c, key)
    THEN [ret |-> Null, cache |-> c]
    ELSE IF t >= mapGet(c, key).expiresAt
         THEN [ret |-> Null, cache |-> mapDelete(c, key)]
         ELSE [ret |-> mapGet(c, key).data, cache |-> c]

\* get(key): the value returned and the Map afterwards (lazy deletion)
get(c, t, key) ==
    IF ~mapHas(c, key)
    THEN [ret |-> Null, cache |-> c]
    ELSE IF t > mapGet(c, key).expiresAt
         THEN [ret |-> Null, cache |-> mapDelete(c, key)]
         ELSE [ret |-> mapGet(c, key).data, cache |-> c]

\* an eviction that takes the entries last inserted first
sortByCreatedAt_newestFirst(entries) ==
    [i \in 1..Len(entries) |-> entries[Len(entries) + 1 - i]]

\* entries.sort((a, b) => a[1].createdAt - b[1].createdAt): a stable sort
RECURSIVE sortByCreatedAt(_)
sortByCreatedAt(entries) ==
    IF entries = <<>>
    THEN <<>>
    ELSE LET i == CHOOSE j \in 1..Len(entries) :
                      /\ \A m \in 1..Len(entries) :
                             entries[j].createdAt <= entries[m].createdAt
                      /\ \A m \in 1..(j - 1) :
                             entries[m].createdAt > entries[j].createdAt
         IN  <<entries[i]>> \o
             sortByCreatedAt(SubSeq(entries, 1, i - 1) \o
                             SubSeq(entries, i + 1, Len(entries)))

\* Math.floor(MAX_CACHE_SIZE * 0.1)
toRemove == MAX_CACHE_SIZE \div 10

\* eviction that starts only above the capacity
evictedKeys_late(c) ==
    IF Len(c) > MAX_CACHE_SIZE
    THEN {sortByCreatedAt(c)[i].key : i \in 1..toRemove}
    ELSE {}

\* the keys the eviction loop of set deletes
evictedKeys(c) ==
    IF Len(c) >= MAX_CACHE_SIZE
    THEN {sortByCreatedAt(c)[i].key : i \in 1..toRemove}
    ELSE {}

\* a set that leaves the createdAt of an entry it overwrites as it was
set_keepsCreatedAt(c, t, key, data, ttl) ==
    LET evicted == evictedKeys(c)
        kept == IF evicted = {}
                THEN c
                ELSE SelectSeq(c, LAMBDA e : e.key \notin evicted)
    IN  mapSet(kept, [key |-> key, data |-> data, expiresAt |-> t + ttl,
                      createdAt |-> IF mapHas(kept, key)
                                    THEN mapGet(kept, key).createdAt
                                    ELSE t])

\* set(key, data, ttl): the Map afterwards
set(c, t, key, data, ttl) ==
    LET evicted == evictedKeys(c)
        kept == IF evicted = {}
                THEN c
                ELSE SelectSeq(c, LAMBDA e : e.key \notin evicted)
    IN  mapSet(kept, [key |-> key, data |-> data,
                      expiresAt |-> t + ttl, createdAt |-> t])

\* a del that removes every key the given key is a prefix of
del_byPrefix(c, key) ==
    [ret |-> mapHas(c, key),
     cache |-> SelectSeq(c, LAMBDA e : ~startsWith(e.key, key))]

\* del(key)
del(c, key) == [ret |-> mapHas(c, key), cache |-> mapDelete(c, key)]

\* delPattern(pattern)
delPattern(c, pattern) ==
    LET prefix == replaceFirst(pattern, "*")
        kept == SelectSeq(c, LAMBDA e : ~startsWith(e.key, prefix))
    IN  [ret |-> Len(c) - Len(kept), cache |-> kept]

\* clear()
clear(c) == [ret |-> Len(c), cache |-> <<>>]

\* getStats()
getStats(c, t) ==
    [total |-> Len(c),
     active |-> Cardinality({i \in 1..Len(c) : ~(t > c[i].expiresAt)}),
     expired |-> Cardinality({i \in 1..Len(c) : t > c[i].expiresAt}),
     maxSize |-> MAX_CACHE_SIZE]

\* a sweep that also removes the entries that expire at this instant
cleanup_atExpiry(c, t) ==
    LET kept == SelectSeq(c, LAMBDA e : t < e.expiresAt)
    IN  [ret |-> Len(c) - Len(kept), cache |-> kept]

\* cleanup()
cleanup(c, t) ==
    LET kept == SelectSeq(c, LAMBDA e : ~(t > e.expiresAt))
    IN  [ret |-> Len(c) - Len(kept), cache |-> kept]

(***************************************************************************)
(* middleware/cache.js                                                     *)
(***************************************************************************)
\* an invalidateCache whose pattern lacks the colon that ends the namespace
invalidateCache_noColon(c, prefix, id) ==
    IF id # <<>>
    THEN del(c, getCacheKey(prefix, id)).cache
    ELSE delPattern(c, prefix \o Star).cache

\* invalidateCache(prefix, id); id = <<>> stands for the omitted id
invalidateCache(c, prefix, id) ==
    IF id # <<>>
    THEN del(c, getCacheKey(prefix, id)).cache
    ELSE delPattern(c, prefix \o Colon \o Star).cache

\* whether invalidateCache reaches a Map.delete call
invalidateCacheDeletes(c, prefix, id) ==
    \/ id # <<>>
    \/ \E i \in 1..Len(c) : startsWith(c[i].key, prefix \o Colon)

(***************************************************************************)
(* The store                                                               *)
(***************************************************************************)
U1 == <<"u", "1">>
U2 == <<"u", "2">>
UserIds == {U1, U2}
\* the users collection without the document id
removeUser(us, id) == [u \in DOMAIN us \ {id} |-> us[u]]

\* UsersDao.updateUser: findByIdAndUpdate(id, {field: value})
updateUserField(us, id, field, value) ==
    IF id \in DOMAIN us THEN [us EXCEPT ![id][field] = value] ELSE us

\* the session without a currentUser
NoUser == <<>>
P1 == <<"p", "1">>
P2 == <<"p", "2">>
\* the ids uuidv4() returns to createPost, in order; P1 exists at the start
PostIdSeq == <<P1, P2>>
PostIds == {PostIdSeq[i] : i \in 1..Len(PostIdSeq)}
Names == {"n0", "n1"}
Captions == {"c0", "c1"}
\* the likes arrays a client sends
LikesArrays == {<<>>, <<U2>>}
\* what a failed store call leaves in the handler
DbError == [dbError |-> TRUE]

InitUser(id) ==
    [_id |-> id, name |-> "n0", email |-> <<"e">> \o id,
     password |-> "hash", role |-> "USER", lastLogin |-> 1]

\* the ids of the posts created so far
issuedPosts == {PostIdSeq[i] : i \in 1..(nextPost - 1)}

\* UsersDao.findUserById
findUserById(us, id) == IF id \in DOMAIN us THEN us[id] ELSE Null

\* PostsDao.findPostById: the post with its creator populated
findPostById(ps, us, id) ==
    IF id \in DOMAIN ps
    THEN [ps[id] EXCEPT !.creator = findUserById(us, ps[id].creator)]
    ELSE Null

\* an update that adds the given likes to the stored ones
updateOnePost_addsLikes(ps, id, field, value) ==
    IF id \in DOMAIN ps
    THEN [matchedCount |-> 1,
          posts |-> [ps EXCEPT ![id][field] =
                        IF field = "likes"
                        THEN @ \o SelectSeq(value, LAMBDA u :
                                     \A i \in 1..Len(ps[id].likes) :
                                         ps[id].likes[i] # u)
                        ELSE value]]
    ELSE [matchedCount |-> 0, posts |-> ps]

\* PostsDao.updatePost, PostsDao.likePost: updateOne({_id}, {$set})
updateOnePost(ps, id, field, value) ==
    IF id \in DOMAIN ps
    THEN [matchedCount |-> 1, posts |-> [ps EXCEPT ![id][field] = value]]
    ELSE [matchedCount |-> 0, posts |-> ps]

\* seq sorted by descending score, stable; score[i] is the sort key of
\* seq[i]
RECURSIVE sortDesc(_, _)
sortDesc(seq, score) ==
    IF Len(seq) <= 1 THEN seq
    ELSE LET best == CHOOSE i \in 1..Len(seq) :
                         /\ \A j \in 1..Len(seq) : score[j] <= score[i]
                         /\ \A j \in 1..(i - 1) : score[j] < score[i]
             without(q) == SubSeq(q, 1, best - 1)
                               \o SubSeq(q, best + 1, Len(q))
         IN  <<seq[best]>> \o sortDesc(without(seq), without(score))

\* the posts collection in insertion order
allPosts(ps) ==
    LET ids == SelectSeq(PostIdSeq, LAMBDA id : id \in DOMAIN ps)
    IN  [i \in 1..Len(ids) |-> ps[ids[i]]]

\* the $project of the mostLiked pipeline on the looked-up creator
projectCreator(u) ==
    IF u = Null THEN [empty |-> TRUE]
    ELSE [_id |-> u._id, name |-> u.name, email |-> u.email,
          role |-> u.role, lastLogin |-> u.lastLogin]

\* PostsDao.findAllPosts(sortBy, 20, 0)
findAllPosts(ps, us, sortBy) ==
    LET all == allPosts(ps)
    IN  IF sortBy = "mostLiked"
        THEN \* $sort: { likesCount: -1, createdAt: -1 }
             LET sorted == sortDesc(all,
                     [i \in 1..Len(all) |->
                         Len(all[i].likes) * (Len(PostIdSeq) + 1)
                             + all[i].createdAt])
             IN  [i \in 1..Len(sorted) |->
                     [sorted[i] EXCEPT !.creator =
                          projectCreator(findUserById(us,
                                                      sorted[i].creator))]]
        ELSE \* sort({ createdAt: -1 })
             LET sorted == sortDesc(all,
                     [i \in 1..Len(all) |-> all[i].createdAt])
             IN  [i \in 1..Len(sorted) |->
                     [sorted[i] EXCEPT !.creator =
                          findUserById(us, sorted[i].creator)]]

(***************************************************************************)
(* utils/responseFormatter.js                                              *)
(***************************************************************************)
\* formatSuccessResponse(data) for a single object or null, total = null
formatSuccessResponse(data) ==
    IF data = Null THEN Null ELSE [documents |-> <<data>>]

\* mapIdForFrontend(obj): id and $id next to _id, also in the creator
mapIdForFrontend(obj) ==
    LET withCreator ==
            IF obj.creator # Null /\ "_id" \in DOMAIN obj.creator
            THEN [obj EXCEPT !.creator =
                      [id |-> obj.creator._id, dollarId |-> obj.creator._id]
                      @@ obj.creator]
            ELSE obj
    IN  [id |-> obj._id, dollarId |-> obj._id] @@ withCreator

\* formatSuccessResponse(data) for an array, total = null
formatSuccessResponseArray(data) ==
    [documents |-> [i \in 1..Len(data) |-> mapIdForFrontend(data[i])]]

formatErrorResponse(message, code) == [error |-> message, code |-> code]

(***************************************************************************)
(* index.js: the socket server                                             *)
(***************************************************************************)
\* the connections a run opens; a closed connection never reopens, a client
\* that reconnects gets a new socket.id
Sockets == {"s1", "s2"}
Unconnected == [state |-> "new", rooms |-> {}]

\* the room every event of io.emit goes to
Everyone == <<"all">>

\* a server that hands every event to every open connection
members_everyone(room) ==
    {s \in Sockets : sockets[s].state = "open"}

\* io.to(`user-${id}`) and io.emit: the open connections an event for the
\* room goes to; a room is named by its user id
members(room) ==
    {s \in Sockets : /\ sockets[s].state = "open"
                     /\ (room = Everyone \/ room \in sockets[s].rooms)}

\* the inboxes after the events of emitted are sent in order
RECURSIVE deliver(_, _)
deliver(box, emitted) ==
    IF emitted = <<>>
    THEN box
    ELSE deliver([s \in Sockets |->
                     IF s \in members(Head(emitted).room)
                     THEN Append(box[s], Head(emitted))
                     ELSE box[s]],
                 Tail(emitted))

\* the events of a sequence, as a set
eventsOf(emitted) == {emitted[i] : i \in 1..Len(emitted)}

\* io.on("connection")
Connect(s) ==
    /\ sockets[s].state = "new"
    /\ sockets' = [sockets EXCEPT ![s].state = "open"]
    /\ UNCHANGED <<cache, now, last, storeVars, req, resp, io, userSockets,
                   inbox, sent, fault>>

\* userSockets.set(userId, socket.id)
userSocketsSet(m, userId, s) ==
    IF \E i \in 1..Len(m) : m[i].userId = userId
    THEN [i \in 1..Len(m) |->
             IF m[i].userId = userId
             THEN [userId |-> userId, socketId |-> s]
             ELSE m[i]]
    ELSE Append(m, [userId |-> userId, socketId |-> s])

\* an authenticate that hands the new member an event sent to the room
\* before it joined
Authenticate_replays(s, userId) ==
    /\ sockets[s].state = "open"
    /\ IF userId # NoUser
       THEN /\ sockets' = [sockets EXCEPT
                              ![s].rooms = sockets[s].rooms \cup {userId}]
            /\ userSockets' = userSocketsSet(userSockets, userId, s)
            /\ inbox' = IF \E e \in sent : e.room = userId
                        THEN [inbox EXCEPT ![s] =
                                 Append(@, CHOOSE e \in sent :
                                               e.room = userId)]
                        ELSE inbox
       ELSE UNCHANGED <<sockets, userSockets, inbox>>
    /\ UNCHANGED <<cache, now, last, storeVars, req, resp, io, sent, fault>>

\* socket.on("authenticate"); userId = NoUser stands for a falsy argument
Authenticate(s, userId) ==
    /\ sockets[s].state = "open"
    /\ IF userId # NoUser
       THEN /\ sockets' = [sockets EXCEPT
                              ![s].rooms = sockets[s].rooms \cup {userId}]
            /\ userSockets' = userSocketsSet(userSockets, userId, s)
       ELSE UNCHANGED <<sockets, userSockets>>
    /\ UNCHANGED <<cache, now, last, storeVars, req, resp, io, inbox, sent,
                   fault>>

\* the loop of the disconnect handler: delete the first entry of the
\* socket, then break
userSocketsDrop(m, s) ==
    LET hits == {i \in 1..Len(m) : m[i].socketId = s}
    IN  IF hits = {}
        THEN m
        ELSE LET first == CHOOSE i \in hits : \A k \in hits : i <= k
             IN  [i \in 1..(Len(m) - 1) |->
                     IF i < first THEN m[i] ELSE m[i + 1]]

\* socket.on("disconnect"); the closed connection has left its rooms
Disconnect(s) ==
    /\ sockets[s].state = "open"
    /\ sockets' = [sockets EXCEPT ![s] = [state |-> "closed", rooms |-> {}]]
    /\ userSockets' = userSocketsDrop(userSockets, s)
    /\ UNCHANGED <<cache, now, last, storeVars, req, resp, io, inbox, sent,
                   fault>>

(***************************************************************************)
(* Requests                                                                *)
(***************************************************************************)
Reqs == {"r1", "r2"}
Idle == [pc |-> "idle"]
NoResponse == [route |-> "none"]
\* ttl of the cached routes, in minutes
TTL_POSTS == 2
TTL_POST == 3
TTL_USER == 5

\* the handler of slot r is suspended at pc with these locals; resp[r] is
\* the response to the last request of slot r, once it is sent
Suspend(r, locals) ==
    /\ req' = [req EXCEPT ![r] = locals]
    /\ resp' = [resp EXCEPT ![r] = NoResponse]

\* res.status(status).json(body) ends the request of slot r
Send(r, route, id, status, body, hit) ==
    /\ resp' = [resp EXCEPT ![r] = [route |-> route, id |-> id,
                                    status |-> status, body |-> body,
                                    hit |-> hit]]
    /\ req' = [req EXCEPT ![r] = Idle]

\* Send at the end of a turn of the event loop in which the handler first
\* made the calls of effects, in this order: "invalidate" for an
\* invalidateCache call, "emit" for an emit call
SendAfter(r, route, id, status, body, effects) ==
    /\ resp' = [resp EXCEPT ![r] = [route |-> route, id |-> id,
                                    status |-> status, body |-> body,
                                    hit |-> FALSE, effects |-> effects]]
    /\ req' = [req EXCEPT ![r] = Idle]

\* a wrapper that caches the handler's body wrapped once more
SendCached_rewraps(r, status, body) ==
    /\ cache' = set(cache, now, req[r].cacheKey, [documents |-> <<body>>],
                    req[r].ttl)
    /\ Send(r, req[r].pc, req[r].id, status, body, FALSE)

\* the res.json that cacheMiddleware installs on a miss: cache, then send
SendCached(r, status, body) ==
    /\ cache' = set(cache, now, req[r].cacheKey, body, req[r].ttl)
    /\ Send(r, req[r].pc, req[r].id, status, body, FALSE)

\* Send for a route whose answer depends on the requester's session
SendTo(r, route, id, session, status, body, hit) ==
    /\ resp' = [resp EXCEPT ![r] = [route |-> route, id |-> id,
                                    session |-> session,
                                    status |-> status, body |-> body,
                                    hit |-> hit]]
    /\ req' = [req EXCEPT ![r] = Idle]

\* Map.delete throws while the fault is injected
mapDeleteThrows(c, prefix, id) ==
    "Map.delete" \in fault /\ invalidateCacheDeletes(c, prefix, id)

\* a handler that invalidates the lists and forgets the post's own key
invalidatePost_listsOnly(c, postId) ==
    [threw |-> FALSE, cache |-> invalidateCache(c, S_posts, <<>>)]

\* invalidateCache("post", postId); invalidateCache("posts"): whether one
\* of the two throws, and the Map afterwards
invalidatePost(c, postId) ==
    IF mapDeleteThrows(c, S_post, postId)
    THEN [threw |-> TRUE, cache |-> c]
    ELSE LET c1 == invalidateCache(c, S_post, postId)
         IN  IF mapDeleteThrows(c1, S_posts, <<>>)
             THEN [threw |-> TRUE, cache |-> c1]
             ELSE [threw |-> FALSE,
                   cache |-> invalidateCache(c1, S_posts, <<>>)]

(***************************************************************************)
(* posts/routes.js                                                         *)
(***************************************************************************)
\* a middleware that stores the entry anew when it serves it
GetPostById_refreshes(r, postId, dbOk) ==
    LET key == getCacheKey(S_post, postId)
        cached == get(cache, now, key)
    IN  /\ req[r].pc = "idle"
        /\ IF cached.ret # Null
           THEN /\ cache' = set(cached.cache, now, key, cached.ret, TTL_POST)
                /\ Send(r, "getPostById", postId, 200, cached.ret, TRUE)
           ELSE /\ cache' = cached.cache
                /\ Suspend(r, [pc |-> "getPostById", id |-> postId,
                               cacheKey |-> key, ttl |-> TTL_POST,
                               post |-> IF dbOk
                                        THEN findPostById(posts, users, postId)
                                        ELSE DbError])
        /\ UNCHANGED <<now, last, storeVars, ioVars, sent, fault>>

\* GET /api/posts/:postId through cacheMiddleware: hit, or miss and
\* getPostById up to its await of dao.findPostById
GetPostById(r, postId, dbOk) ==
    LET key == getCacheKey(S_post, postId)
        cached == get(cache, now, key)
    IN  /\ req[r].pc = "idle"
        /\ cache' = cached.cache
        /\ IF cached.ret # Null
           THEN Send(r, "getPostById", postId, 200, cached.ret, TRUE)
           ELSE Suspend(r, [pc |-> "getPostById", id |-> postId,
                            cacheKey |-> key, ttl |-> TTL_POST,
                            post |-> IF dbOk
                                     THEN findPostById(posts, users, postId)
                                     ELSE DbError])
        /\ UNCHANGED <<now, last, storeVars, ioVars, sent, fault>>

\* what getPostById answers once dao.findPostById returned post, or threw
getPostByIdResponse(post) ==
    IF post = DbError
    THEN [status |-> 500,
          body |-> formatErrorResponse("Failed to fetch post",
                                       "INTERNAL_ERROR")]
    ELSE IF post = Null
    THEN [status |-> 404,
          body |-> formatErrorResponse("Post not found", "POST_NOT_FOUND")]
    ELSE [status |-> 200, body |-> formatSuccessResponse(post)]

\* getPostById after dao.findPostById returned or threw
GetPostByIdResume(r) ==
    LET answer == getPostByIdResponse(req[r].post)
    IN  /\ req[r].pc = "getPostById"
        /\ SendCached(r, answer.status, answer.body)
        /\ UNCHANGED <<now, last, storeVars, ioVars, sent, fault>>

\* PUT /api/posts/:postId: updatePost up to its first await
UpdatePost(r, postId, session, caption) ==
    /\ req[r].pc = "idle"
    /\ postId \in issuedPosts
    /\ IF session = NoUser
       THEN Send(r, "updatePost", postId, 401,
                 [message |-> "You must be logged in"], FALSE)
       ELSE Suspend(r, [pc |-> "updatePost", id |-> postId,
                        session |-> session, caption |-> caption,
                        existingPost |-> findPostById(posts, users, postId)])
    /\ UNCHANGED <<cache, now, last, storeVars, ioVars, sent, fault>>

\* updatePost after findPostById: the checks, then dao.updatePost
UpdatePostFound(r, dbOk) ==
    LET rq == req[r]
    IN  /\ rq.pc = "updatePost"
        /\ IF rq.existingPost = Null
           THEN /\ Send(r, "updatePost", rq.id, 404,
                        [message |-> "Post not found"], FALSE)
                /\ UNCHANGED posts
           ELSE IF rq.existingPost.creator = Null
           THEN \* existingPost.creator._id throws a TypeError
                /\ Send(r, "updatePost", rq.id, 500,
                        formatErrorResponse("Failed to update post",
                                            "INTERNAL_ERROR"), FALSE)
                /\ UNCHANGED posts
           ELSE IF rq.existingPost.creator._id # rq.session
           THEN /\ Send(r, "updatePost", rq.id, 403,
                        [message |-> "You can only update your own posts"],
                        FALSE)
                /\ UNCHANGED posts
           ELSE IF ~dbOk
           THEN /\ Send(r, "updatePost", rq.id, 500,
                        formatErrorResponse("Failed to update post",
                                            "INTERNAL_ERROR"), FALSE)
                /\ UNCHANGED posts
           ELSE /\ posts' = updateOnePost(posts, rq.id, "caption",
                                          rq.caption).posts
                /\ Suspend(r, [pc |-> "updatePost_updated", id |-> rq.id])
        /\ UNCHANGED <<cache, now, last, users, nextPost, notifications,
                       follows, messages, ioVars, sent, fault>>

\* updatePost after dao.updatePost: the second findPostById
UpdatePostUpdated(r) ==
    /\ req[r].pc = "updatePost_updated"
    /\ Suspend(r, [pc |-> "updatePost_reread", id |-> req[r].id,
                   updatedPost |-> findPostById(posts, users, req[r].id)])
    /\ UNCHANGED <<cache, now, last, storeVars, ioVars, sent, fault>>

\* updatePost after the second findPostById: invalidate, respond
UpdatePostReread(r) ==
    LET rq == req[r]
        inv == invalidatePost(cache, rq.id)
    IN  /\ rq.pc = "updatePost_reread"
        /\ cache' = inv.cache
        /\ IF inv.threw
           THEN Send(r, "updatePost", rq.id, 500,
                     formatErrorResponse("Failed to update post",
                                         "INTERNAL_ERROR"), FALSE)
           ELSE Send(r, "updatePost", rq.id, 200,
                     formatSuccessResponse(rq.updatedPost), FALSE)
        /\ UNCHANGED <<now, last, storeVars, ioVars, sent, fault>>

\* DELETE /api/posts/:postId: deletePost up to its first await
DeletePost(r, postId, session) ==
    /\ req[r].pc = "idle"
    /\ postId \in issuedPosts
    /\ IF session = NoUser
       THEN Send(r, "deletePost", postId, 401,
                 [message |-> "You must be logged in"], FALSE)
       ELSE Suspend(r, [pc |-> "deletePost", id |-> postId,
                        session |-> session,
                        post |-> findPostById(posts, users, postId)])
    /\ UNCHANGED <<cache, now, last, storeVars, ioVars, sent, fault>>

\* deletePost after findPostById: the checks, then dao.deletePost
DeletePostFound(r, dbOk) ==
    LET rq == req[r]
    IN  /\ rq.pc = "deletePost"
        /\ IF rq.post = Null
           THEN /\ Send(r, "deletePost", rq.id, 404,
                        [message |-> "Post not found"], FALSE)
                /\ UNCHANGED posts
           ELSE IF rq.post.creator = Null
           THEN /\ Send(r, "deletePost", rq.id, 500,
                        formatErrorResponse("Failed to delete post",
                                            "INTERNAL_ERROR"), FALSE)
                /\ UNCHANGED posts
           ELSE IF /\ rq.post.creator._id # rq.session
                   /\ findUserById(users, rq.session) # Null
                   /\ findUserById(users, rq.session).role # "ADMIN"
           THEN /\ Send(r, "deletePost", rq.id, 403,
                        [message |-> "You can only delete your own posts"],
                        FALSE)
                /\ UNCHANGED posts
           ELSE IF ~dbOk
           THEN /\ Send(r, "deletePost", rq.id, 500,
                        formatErrorResponse("Failed to delete post",
                                            "INTERNAL_ERROR"), FALSE)
                /\ UNCHANGED posts
           ELSE /\ posts' = [id \in DOMAIN posts \ {rq.id} |-> posts[id]]
                /\ Suspend(r, [pc |-> "deletePost_deleted", id |-> rq.id])
        /\ UNCHANGED <<cache, now, last, users, nextPost, notifications,
                       follows, messages, ioVars, sent, fault>>

\* deletePost after dao.deletePost: invalidate, respond
DeletePostDeleted(r) ==
    LET rq == req[r]
        inv == invalidatePost(cache, rq.id)
    IN  /\ rq.pc = "deletePost_deleted"
        /\ cache' = inv.cache
        /\ IF inv.threw
           THEN Send(r, "deletePost", rq.id, 500,
                     formatErrorResponse("Failed to delete post",
                                         "INTERNAL_ERROR"), FALSE)
           ELSE Send(r, "deletePost", rq.id, 200,
                     formatSuccessResponse(
                         [message |-> "Post deleted successfully"]), FALSE)
        /\ UNCHANGED <<now, last, storeVars, ioVars, sent, fault>>

\* a tail that emits 'post-liked' to the creator's room only
LikePostFinish_toCreator(r, emitted) ==
    LET rq == req[r]
        inv == invalidatePost(cache, rq.id)
        liked == <<[room |-> rq.populatedPost.creator._id,
                    event |-> "post-liked",
                    postId |-> rq.id, likes |-> rq.likesArray]>>
        before == [i \in 1..Len(emitted) |-> "emit"]
    IN  /\ cache' = inv.cache
        /\ IF inv.threw
           THEN /\ SendAfter(r, "likePost", rq.id, 500,
                             [error |-> "Map.delete failed"], before)
                /\ sent' = sent \cup eventsOf(emitted)
                /\ inbox' = deliver(inbox, emitted)
           ELSE IF io.posts /\ "emit" \in fault
           THEN /\ SendAfter(r, "likePost", rq.id, 500,
                             [error |-> "emit failed"],
                             before \o <<"invalidate", "invalidate">>)
                /\ sent' = sent \cup eventsOf(emitted)
                /\ inbox' = deliver(inbox, emitted)
           ELSE IF io.posts
           THEN /\ SendAfter(r, "likePost", rq.id, 200, rq.populatedPost,
                             before \o <<"invalidate", "invalidate", "emit">>)
                /\ sent' = sent \cup eventsOf(emitted \o liked)
                /\ inbox' = deliver(inbox, emitted \o liked)
           ELSE /\ SendAfter(r, "likePost", rq.id, 200, rq.populatedPost,
                             before \o <<"invalidate", "invalidate">>)
                /\ sent' = sent \cup eventsOf(emitted)
                /\ inbox' = deliver(inbox, emitted)

\* the tail of likePost: invalidate, io.emit("post-liked"), res.json
LikePostFinish(r, emitted) ==
    LET rq == req[r]
        inv == invalidatePost(cache, rq.id)
        liked == <<[room |-> Everyone, event |-> "post-liked",
                    postId |-> rq.id, likes |-> rq.likesArray]>>
        before == [i \in 1..Len(emitted) |-> "emit"]
    IN  /\ cache' = inv.cache
        /\ IF inv.threw
           THEN /\ SendAfter(r, "likePost", rq.id, 500,
                             [error |-> "Map.delete failed"], before)
                /\ sent' = sent \cup eventsOf(emitted)
                /\ inbox' = deliver(inbox, emitted)
           ELSE IF io.posts /\ "emit" \in fault
           THEN /\ SendAfter(r, "likePost", rq.id, 500,
                             [error |-> "emit failed"],
                             before \o <<"invalidate", "invalidate">>)
                /\ sent' = sent \cup eventsOf(emitted)
                /\ inbox' = deliver(inbox, emitted)
           ELSE IF io.posts
           THEN /\ SendAfter(r, "likePost", rq.id, 200, rq.populatedPost,
                             before \o <<"invalidate", "invalidate", "emit">>)
                /\ sent' = sent \cup eventsOf(emitted \o liked)
                /\ inbox' = deliver(inbox, emitted \o liked)
           ELSE /\ SendAfter(r, "likePost", rq.id, 200, rq.populatedPost,
                             before \o <<"invalidate", "invalidate">>)
                /\ sent' = sent \cup eventsOf(emitted)
                /\ inbox' = deliver(inbox, emitted)

\* PUT /api/posts/:postId/like: likePost up to its first await
LikePost(r, postId, session, likesArray) ==
    /\ req[r].pc = "idle"
    /\ postId \in issuedPosts
    /\ IF session = NoUser
       THEN Send(r, "likePost", postId, 401,
                 [message |-> "You must be logged in"], FALSE)
       ELSE Suspend(r, [pc |-> "likePost", id |-> postId,
                        session |-> session, likesArray |-> likesArray,
                        existingPost |-> findPostById(posts, users, postId)])
    /\ UNCHANGED <<cache, now, last, storeVars, ioVars, sent, fault>>

\* likePost after findPostById: isLiking, then the updateOne of dao.likePost
LikePostFound(r, dbOk) ==
    LET rq == req[r]
        isLiking == /\ ~(\E i \in 1..Len(rq.existingPost.likes) :
                            rq.existingPost.likes[i] = rq.session)
                    /\ \E i \in 1..Len(rq.likesArray) :
                            rq.likesArray[i] = rq.session
        result == updateOnePost(posts, rq.id, "likes", rq.likesArray)
    IN  /\ rq.pc = "likePost"
        /\ IF rq.existingPost = Null
           THEN /\ Send(r, "likePost", rq.id, 404,
                        [error |-> "Post not found"], FALSE)
                /\ UNCHANGED posts
           ELSE IF ~dbOk
           THEN /\ Send(r, "likePost", rq.id, 500,
                        [error |-> "store failed"], FALSE)
                /\ UNCHANGED posts
           ELSE /\ posts' = result.posts
                /\ Suspend(r, [pc |-> "likePost_updateOne", id |-> rq.id,
                               session |-> rq.session,
                               likesArray |-> rq.likesArray,
                               isLiking |-> isLiking,
                               matchedCount |-> result.matchedCount])
        /\ UNCHANGED <<cache, now, last, users, nextPost, notifications,
                       follows, messages, ioVars, sent, fault>>

\* dao.likePost after updateOne: matchedCount, then findOne
LikePostUpdateOne(r) ==
    LET rq == req[r]
    IN  /\ rq.pc = "likePost_updateOne"
        /\ IF rq.matchedCount = 0
           THEN Send(r, "likePost", rq.id, 500,
                     [error |-> "Post not found"], FALSE)
           ELSE Suspend(r, [pc |-> "likePost_findOne", id |-> rq.id,
                            session |-> rq.session,
                            likesArray |-> rq.likesArray,
                            isLiking |-> rq.isLiking,
                            updatedPost |-> IF rq.id \in DOMAIN posts
                                            THEN posts[rq.id] ELSE Null])
        /\ UNCHANGED <<cache, now, last, storeVars, ioVars, sent, fault>>

\* likePost after dao.likePost: the second findPostById
LikePostUpdated(r) ==
    LET rq == req[r]
    IN  /\ rq.pc = "likePost_findOne"
        /\ IF rq.updatedPost = Null
           THEN Send(r, "likePost", rq.id, 404,
                     [error |-> "Post not found"], FALSE)
           ELSE Suspend(r, [pc |-> "likePost_populated", id |-> rq.id,
                            session |-> rq.session,
                            likesArray |-> rq.likesArray,
                            isLiking |-> rq.isLiking,
                            populatedPost |->
                                findPostById(posts, users, rq.id)])
        /\ UNCHANGED <<cache, now, last, storeVars, ioVars, sent, fault>>

\* likePost after the second findPostById: createNotification for a like of
\* somebody else's post, otherwise straight to the tail
LikePostPopulated(r, dbOk) ==
    LET rq == req[r]
    IN  /\ rq.pc = "likePost_populated"
        /\ IF rq.populatedPost = Null
           THEN /\ Send(r, "likePost", rq.id, 404,
                        [error |-> "Post not found after update"], FALSE)
                /\ UNCHANGED <<cache, follows, notifications, inbox, sent>>
           ELSE IF rq.isLiking /\ rq.populatedPost.creator = Null
           THEN /\ Send(r, "likePost", rq.id, 500,
                        [error |-> "Cannot read properties of null"], FALSE)
                /\ UNCHANGED <<cache, follows, notifications, inbox, sent>>
           ELSE IF rq.isLiking /\ rq.populatedPost.creator._id # rq.session
           THEN /\ notifications' =
                       IF dbOk
                       THEN notifications \cup
                                {[user |-> rq.populatedPost.creator._id,
                                  actor |-> rq.session, type |-> "LIKE",
                                  post |-> rq.id]}
                       ELSE notifications
                /\ Suspend(r, [pc |-> "likePost_notification", id |-> rq.id,
                               session |-> rq.session,
                               likesArray |-> rq.likesArray,
                               populatedPost |-> rq.populatedPost,
                               threw |-> ~dbOk])
                /\ UNCHANGED <<cache, inbox, sent>>
           ELSE /\ LikePostFinish(r, <<>>)
                /\ UNCHANGED notifications
        /\ UNCHANGED <<now, last, users, posts, nextPost, messages, wiring,
                       follows, fault>>

\* likePost after createNotification: findNotificationById, or the catch
LikePostNotification(r) ==
    LET rq == req[r]
    IN  /\ rq.pc = "likePost_notification"
        /\ IF rq.threw
           THEN LikePostFinish(r, <<>>)
           ELSE /\ Suspend(r, [rq EXCEPT !.pc = "likePost_notificationFound"])
                /\ UNCHANGED <<cache, inbox, sent>>
        /\ UNCHANGED <<now, last, storeVars, wiring, fault>>

\* likePost after findNotificationById: the two emits to the creator's
\* room inside the inner try, then the tail
LikePostNotificationFound(r) ==
    LET rq == req[r]
        room == rq.populatedPost.creator._id
    IN  /\ rq.pc = "likePost_notificationFound"
        /\ LikePostFinish(r,
               IF io.posts /\ "emit" \notin fault
               THEN <<[room |-> room, event |-> "new-notification"],
                      [room |-> room,
                       event |-> "notification-count-updated"]>>
               ELSE <<>>)
        /\ UNCHANGED <<now, last, storeVars, wiring, fault>>

\* the part of req.query that /api/posts reads: sortBy, "" when omitted
SortBys == {"", "latest", "mostLiked"}
S_latest == <<"l", "a", "t", "e", "s", "t">>
S_mostLiked == <<"m", "o", "s", "t", "L", "i", "k", "e", "d">>
S_20 == <<"2", "0">>
S_0 == <<"0">>
\* `${sortBy || "latest"}:${limit || 20}:${skip || 0}` for limit and skip
\* omitted
postsQueryId(sortBy) ==
    (IF sortBy = "mostLiked" THEN S_mostLiked ELSE S_latest)
        \o Colon \o S_20 \o Colon \o S_0

\* a middleware that answers a hit from the cache and calls next() all the
\* same
GetRecentPosts_hitCallsNext(r, sortBy, dbOk) ==
    LET key == getCacheKey(S_posts, postsQueryId(sortBy))
        cached == get(cache, now, key)
        sortOption == IF sortBy = "" THEN "latest" ELSE sortBy
    IN  /\ req[r].pc = "idle"
        /\ cache' = cached.cache
        /\ req' = [req EXCEPT ![r] =
                       [pc |-> "getRecentPosts", id |-> postsQueryId(sortBy),
                        cacheKey |-> key, ttl |-> TTL_POSTS,
                        threw |-> ~dbOk,
                        posts |-> IF dbOk
                                  THEN findAllPosts(posts, users, sortOption)
                                  ELSE <<>>]]
        /\ resp' = [resp EXCEPT ![r] =
                        IF cached.ret # Null
                        THEN [route |-> "getRecentPosts",
                              id |-> postsQueryId(sortBy), status |-> 200,
                              body |-> cached.ret, hit |-> TRUE]
                        ELSE NoResponse]
        /\ UNCHANGED <<now, last, storeVars, ioVars, sent, fault>>

\* GET /api/posts through cacheMiddleware: hit, or miss and getRecentPosts
\* up to its await of dao.findAllPosts
GetRecentPosts(r, sortBy, dbOk) ==
    LET key == getCacheKey(S_posts, postsQueryId(sortBy))
        cached == get(cache, now, key)
        sortOption == IF sortBy = "" THEN "latest" ELSE sortBy
    IN  /\ req[r].pc = "idle"
        /\ cache' = cached.cache
        /\ IF cached.ret # Null
           THEN Send(r, "getRecentPosts", postsQueryId(sortBy), 200,
                     cached.ret, TRUE)
           ELSE Suspend(r, [pc |-> "getRecentPosts",
                            id |-> postsQueryId(sortBy),
                            cacheKey |-> key, ttl |-> TTL_POSTS,
                            threw |-> ~dbOk,
                            posts |-> IF dbOk
                                      THEN findAllPosts(posts, users,
                                                        sortOption)
                                      ELSE <<>>])
        /\ UNCHANGED <<now, last, storeVars, ioVars, sent, fault>>

\* getRecentPosts after dao.findAllPosts returned or threw
GetRecentPostsResume(r) ==
    /\ req[r].pc = "getRecentPosts"
    /\ IF req[r].threw
       THEN SendCached(r, 500, formatErrorResponse("Failed to fetch posts",
                                                   "INTERNAL_ERROR"))
       ELSE SendCached(r, 200, formatSuccessResponseArray(req[r].posts))
    /\ UNCHANGED <<now, last, storeVars, ioVars, sent, fault>>

\* the createPost requests that have not reached dao.createPost yet
creating == {r \in Reqs : req[r].pc = "createPost"}

\* POST /api/posts with a file: createPost up to its await of processImage
CreatePost(r, session, caption) ==
    /\ req[r].pc = "idle"
    /\ nextPost + Cardinality(creating) <= Len(PostIdSeq)
    /\ IF session = NoUser
       THEN Send(r, "createPost", <<>>, 401,
                 formatErrorResponse("Authentication required",
                                     "AUTH_REQUIRED"), FALSE)
       ELSE Suspend(r, [pc |-> "createPost", id |-> <<>>,
                        session |-> session, caption |-> caption])
    /\ UNCHANGED <<cache, now, last, storeVars, ioVars, sent, fault>>

\* createPost after processImage: dao.createPost
CreatePostProcessed(r, dbOk) ==
    LET rq == req[r]
        newId == PostIdSeq[nextPost]
    IN  /\ rq.pc = "createPost"
        /\ IF ~dbOk
           THEN /\ Send(r, "createPost", <<>>, 500,
                        formatErrorResponse("Failed to create post",
                                            "INTERNAL_ERROR"), FALSE)
                /\ UNCHANGED <<posts, nextPost>>
           ELSE /\ posts' = [id \in DOMAIN posts \cup {newId} |->
                                IF id = newId
                                THEN [_id |-> newId, creator |-> rq.session,
                                      caption |-> rq.caption, likes |-> <<>>,
                                      createdAt |-> nextPost]
                                ELSE posts[id]]
                /\ nextPost' = nextPost + 1
                /\ Suspend(r, [pc |-> "createPost_created", id |-> newId,
                               session |-> rq.session])
        /\ UNCHANGED <<cache, now, last, users, notifications, messages, ioVars,
                       follows, sent, fault>>

\* createPost after dao.createPost: findPostById(newPost._id)
CreatePostCreated(r) ==
    LET rq == req[r]
    IN  /\ rq.pc = "createPost_created"
        /\ Suspend(r, [pc |-> "createPost_populated", id |-> rq.id,
                       session |-> rq.session,
                       populatedPost |-> findPostById(posts, users, rq.id)])
        /\ UNCHANGED <<cache, now, last, storeVars, ioVars, sent, fault>>

\* createPost after findPostById: invalidateCache("posts"), respond; index.js
\* calls PostRoutes(app) without io, so the if (io) block is skipped there
CreatePostPopulated(r) ==
    LET rq == req[r]
    IN  /\ rq.pc = "createPost_populated"
        /\ IF mapDeleteThrows(cache, S_posts, <<>>)
           THEN /\ Send(r, "createPost", rq.id, 500,
                        formatErrorResponse("Failed to create post",
                                            "INTERNAL_ERROR"), FALSE)
                /\ UNCHANGED cache
           ELSE IF io.posts
           THEN /\ cache' = invalidateCache(cache, S_posts, <<>>)
                /\ Suspend(r, [rq EXCEPT !.pc = "createPost_followers"])
           ELSE /\ cache' = invalidateCache(cache, S_posts, <<>>)
                /\ SendAfter(r, "createPost", rq.id, 201,
                             formatSuccessResponse(rq.populatedPost),
                             <<"invalidate">>)
        /\ UNCHANGED <<now, last, storeVars, ioVars, sent, fault>>

\* the followers findFollowers returns, in the order forEach visits them
FollowerLists == {<<>>, <<U2>>, <<U1, U2>>}

\* createPost after followsDao.findFollowers, when the module was given io:
\* one emit per follower inside the inner try, then the response
CreatePostFollowers(r, followers, dbOk) ==
    LET rq == req[r]
        emitted == IF dbOk /\ "emit" \notin fault
                   THEN [i \in 1..Len(followers) |->
                            [room |-> followers[i], event |-> "new-post",
                             postId |-> rq.populatedPost._id]]
                   ELSE <<>>
    IN  /\ rq.pc = "createPost_followers"
        /\ sent' = sent \cup eventsOf(emitted)
        /\ inbox' = deliver(inbox, emitted)
        /\ SendAfter(r, "createPost", rq.id, 201,
                     formatSuccessResponse(rq.populatedPost),
                     <<"invalidate">> \o [i \in 1..Len(emitted) |-> "emit"])
        /\ UNCHANGED <<cache, now, last, storeVars, wiring, fault>>

(***************************************************************************)
(* users/routes.js                                                         *)
(***************************************************************************)
\* what findUserById answers to the session once dao.findUserById returned
\* user, or threw
findUserByIdResponse(user, session, userId) ==
    IF user = DbError
    THEN [status |-> 500,
          body |-> formatErrorResponse("Failed to fetch user",
                                       "INTERNAL_ERROR")]
    ELSE IF user = Null
    THEN [status |-> 404,
          body |-> formatErrorResponse("User not found", "USER_NOT_FOUND")]
    ELSE LET isOwnProfile == session # NoUser /\ session = userId
             removed == IF isOwnProfile THEN {"password"}
                        ELSE {"email", "password"}
             userResponse == [f \in DOMAIN user \ removed |-> user[f]]
         IN  [status |-> 200, body |-> formatSuccessResponse(userResponse)]

\* GET /api/users/:userId through cacheMiddleware: hit, or miss and
\* findUserById up to its await of dao.findUserById
GetUserById(r, userId, session, dbOk) ==
    LET key == getCacheKey(S_user, userId)
        cached == get(cache, now, key)
    IN  /\ req[r].pc = "idle"
        /\ cache' = cached.cache
        /\ IF cached.ret # Null
           THEN SendTo(r, "findUserById", userId, session, 200, cached.ret,
                       TRUE)
           ELSE Suspend(r, [pc |-> "findUserById", id |-> userId,
                            session |-> session,
                            cacheKey |-> key, ttl |-> TTL_USER,
                            user |-> IF dbOk THEN findUserById(users, userId)
                                     ELSE DbError])
        /\ UNCHANGED <<now, last, storeVars, ioVars, sent, fault>>

\* findUserById after dao.findUserById returned or threw; the wrapped
\* res.json caches the body
GetUserByIdResume(r) ==
    LET rq == req[r]
        answer == findUserByIdResponse(rq.user, rq.session, rq.id)
    IN  /\ rq.pc = "findUserById"
        /\ cache' = set(cache, now, rq.cacheKey, answer.body, rq.ttl)
        /\ SendTo(r, "findUserById", rq.id, rq.session, answer.status,
                  answer.body, FALSE)
        /\ UNCHANGED <<now, last, storeVars, ioVars, sent, fault>>

\* PUT /api/users/:userId with a name: updateUser up to dao.updateUser
UpdateUser(r, userId, name, dbOk) ==
    /\ req[r].pc = "idle"
    /\ IF ~dbOk
       THEN /\ Send(r, "updateUser", userId, 500,
                    formatErrorResponse("Failed to update user",
                                        "INTERNAL_ERROR"), FALSE)
            /\ UNCHANGED users
       ELSE /\ users' = updateUserField(users, userId, "name", name)
            /\ Suspend(r, [pc |-> "updateUser_updated", id |-> userId])
    /\ UNCHANGED <<cache, now, last, follows, posts, nextPost, notifications,
                   messages, ioVars, sent, fault>>

\* updateUser after dao.updateUser: dao.findUserById
UpdateUserUpdated(r) ==
    /\ req[r].pc = "updateUser_updated"
    /\ Suspend(r, [pc |-> "updateUser_reread", id |-> req[r].id,
                   updatedUser |-> findUserById(users, req[r].id)])
    /\ UNCHANGED <<cache, now, last, storeVars, ioVars, sent, fault>>

\* updateUser after dao.findUserById: invalidateCache("user", userId),
\* respond
UpdateUserReread(r) ==
    LET rq == req[r]
    IN  /\ rq.pc = "updateUser_reread"
        /\ IF rq.updatedUser = Null
           THEN /\ Send(r, "updateUser", rq.id, 404,
                        formatErrorResponse("User not found",
                                            "USER_NOT_FOUND"), FALSE)
                /\ UNCHANGED cache
           ELSE IF mapDeleteThrows(cache, S_user, rq.id)
           THEN /\ Send(r, "updateUser", rq.id, 500,
                        formatErrorResponse("Failed to update user",
                                            "INTERNAL_ERROR"), FALSE)
                /\ UNCHANGED cache
           ELSE /\ cache' = invalidateCache(cache, S_user, rq.id)
                /\ Send(r, "updateUser", rq.id, 200,
                        formatSuccessResponse(rq.updatedUser), FALSE)
        /\ UNCHANGED <<now, last, storeVars, ioVars, sent, fault>>

\* POST /api/users/signin with the email of userId: signin up to
\* dao.findUserByEmail
Signin(r, userId, isPasswordValid) ==
    /\ req[r].pc = "idle"
    /\ userId \in DOMAIN users => users[userId].lastLogin < MaxLogins
    /\ Suspend(r, [pc |-> "signin", id |-> userId,
                   isPasswordValid |-> isPasswordValid,
                   currentUser |-> findUserById(users, userId)])
    /\ UNCHANGED <<cache, now, last, storeVars, ioVars, sent, fault>>

\* signin after dao.findUserByEmail: bcrypt.compare
SigninFound(r) ==
    LET rq == req[r]
    IN  /\ rq.pc = "signin"
        /\ IF rq.currentUser = Null
           THEN Send(r, "signin", rq.id, 401,
                     formatErrorResponse(
                         "Invalid credentials. Please try again.",
                         "INVALID_CREDENTIALS"), FALSE)
           ELSE Suspend(r, [rq EXCEPT !.pc = "signin_compared"])
        /\ UNCHANGED <<cache, now, last, storeVars, ioVars, sent, fault>>

\* signin after bcrypt.compare: dao.updateUser(_id, {lastLogin: new Date()})
SigninCompared(r, dbOk) ==
    LET rq == req[r]
    IN  /\ rq.pc = "signin_compared"
        /\ IF ~rq.isPasswordValid
           THEN /\ Send(r, "signin", rq.id, 401,
                        formatErrorResponse(
                            "Invalid credentials. Please try again.",
                            "INVALID_CREDENTIALS"), FALSE)
                /\ UNCHANGED users
           ELSE IF ~dbOk
           THEN /\ Send(r, "signin", rq.id, 500,
                        formatErrorResponse("Failed to sign in user",
                                            "INTERNAL_ERROR"), FALSE)
                /\ UNCHANGED users
           ELSE /\ rq.id \in DOMAIN users =>
                       users[rq.id].lastLogin < MaxLogins
                /\ users' = IF rq.id \in DOMAIN users
                            THEN updateUserField(users, rq.id, "lastLogin",
                                     users[rq.id].lastLogin + 1)
                            ELSE users
                /\ Suspend(r, [pc |-> "signin_updated", id |-> rq.id])
        /\ UNCHANGED <<cache, now, last, posts, nextPost, notifications,
                       follows, messages, ioVars, sent, fault>>

\* signin after dao.updateUser: dao.findUserById
SigninUpdated(r) ==
    /\ req[r].pc = "signin_updated"
    /\ Suspend(r, [pc |-> "signin_reread", id |-> req[r].id,
                   updatedUser |-> findUserById(users, req[r].id)])
    /\ UNCHANGED <<cache, now, last, storeVars, ioVars, sent, fault>>

\* signin after dao.findUserById: invalidateCache("user", _id), respond
SigninReread(r) ==
    LET rq == req[r]
    IN  /\ rq.pc = "signin_reread"
        /\ IF mapDeleteThrows(cache, S_user, rq.id)
           THEN /\ Send(r, "signin", rq.id, 500,
                        formatErrorResponse("Failed to sign in user",
                                            "INTERNAL_ERROR"), FALSE)
                /\ UNCHANGED cache
           ELSE /\ cache' = invalidateCache(cache, S_user, rq.id)
                /\ Send(r, "signin", rq.id, 200,
                        formatSuccessResponse(rq.updatedUser), FALSE)
        /\ UNCHANGED <<now, last, storeVars, ioVars, sent, fault>>

\* the 500 of deleteUser's catch
DeleteUserFailed(r) ==
    Send(r, "deleteUser", req[r].id, 500,
         formatErrorResponse("Failed to delete user", "INTERNAL_ERROR"),
         FALSE)

\* DELETE /api/users/:userId: deleteUser up to step 1 of dao.deleteUser,
\* the find of the user's posts
DeleteUser(r, userId, session) ==
    /\ req[r].pc = "idle"
    /\ IF session = NoUser
       THEN Send(r, "deleteUser", userId, 401,
                 formatErrorResponse("Authentication required",
                                     "AUTH_REQUIRED"), FALSE)
       ELSE IF session # userId /\ InitUser(session).role # "ADMIN"
       THEN Send(r, "deleteUser", userId, 403,
                 formatErrorResponse("Forbidden", "FORBIDDEN"), FALSE)
       ELSE Suspend(r, [pc |-> "deleteUser_1", id |-> userId,
                        postIds |-> {p \in DOMAIN posts :
                                        posts[p].creator = userId}])
    /\ UNCHANGED <<cache, now, last, storeVars, ioVars, sent, fault>>

\* dao.deleteUser step 2: postModel.deleteMany({ creator: id })
DeleteUserPosts(r, dbOk) ==
    LET rq == req[r]
    IN  /\ rq.pc = "deleteUser_1"
        /\ IF ~dbOk
           THEN DeleteUserFailed(r) /\ UNCHANGED posts
           ELSE /\ posts' = [p \in {q \in DOMAIN posts :
                                       posts[q].creator # rq.id} |-> posts[p]]
                /\ Suspend(r, [rq EXCEPT !.pc = "deleteUser_2"])
        /\ UNCHANGED <<cache, now, last, users, nextPost, notifications,
                       follows, messages, ioVars, sent, fault>>

\* dao.deleteUser step 5: the notifications for the user's posts (steps 3
\* and 4 delete saves and reviews, which are outside this state)
DeleteUserPostNotifications(r, dbOk) ==
    LET rq == req[r]
    IN  /\ rq.pc = "deleteUser_2"
        /\ IF ~dbOk
           THEN DeleteUserFailed(r) /\ UNCHANGED notifications
           ELSE /\ notifications' =
                       IF rq.postIds # {}
                       THEN {n \in notifications : n.post \notin rq.postIds}
                       ELSE notifications
                /\ Suspend(r, [rq EXCEPT !.pc = "deleteUser_5"])
        /\ UNCHANGED <<cache, now, last, users, posts, nextPost, messages,
                       follows, ioVars, sent, fault>>

\* dao.deleteUser step 6: updateMany({ likes: id }, { $pull: { likes: id } })
DeleteUserLikes(r, dbOk) ==
    LET rq == req[r]
    IN  /\ rq.pc = "deleteUser_5"
        /\ IF ~dbOk
           THEN DeleteUserFailed(r) /\ UNCHANGED posts
           ELSE /\ posts' = [p \in DOMAIN posts |->
                                [posts[p] EXCEPT !.likes =
                                     SelectSeq(@, LAMBDA u : u # rq.id)]]
                /\ Suspend(r, [rq EXCEPT !.pc = "deleteUser_6"])
        /\ UNCHANGED <<cache, now, last, users, nextPost, notifications,
                       follows, messages, ioVars, sent, fault>>

\* dao.deleteUser step 9: the follows by or of the user (steps 7 and 8
\* delete reviews and saves, which are outside this state)
DeleteUserFollows(r, dbOk) ==
    LET rq == req[r]
    IN  /\ rq.pc = "deleteUser_6"
        /\ IF ~dbOk
           THEN DeleteUserFailed(r) /\ UNCHANGED follows
           ELSE /\ follows' = SelectSeq(follows,
                                  LAMBDA f : /\ f.follower # rq.id
                                             /\ f.following # rq.id)
                /\ Suspend(r, [rq EXCEPT !.pc = "deleteUser_9"])
        /\ UNCHANGED <<cache, now, last, users, posts, nextPost, messages,
                       notifications, ioVars, sent, fault>>

\* dao.deleteUser step 10: the notifications to or by the user
DeleteUserNotifications(r, dbOk) ==
    LET rq == req[r]
    IN  /\ rq.pc = "deleteUser_9"
        /\ IF ~dbOk
           THEN DeleteUserFailed(r) /\ UNCHANGED notifications
           ELSE /\ notifications' =
                       {n \in notifications :
                           n.user # rq.id /\ n.actor # rq.id}
                /\ Suspend(r, [rq EXCEPT !.pc = "deleteUser_10"])
        /\ UNCHANGED <<cache, now, last, users, posts, nextPost, messages,
                       follows, ioVars, sent, fault>>

\* dao.deleteUser step 11: findByIdAndDelete(id)
DeleteUserDocument(r, dbOk) ==
    LET rq == req[r]
    IN  /\ rq.pc = "deleteUser_10"
        /\ IF ~dbOk
           THEN DeleteUserFailed(r) /\ UNCHANGED users
           ELSE /\ users' = removeUser(users, rq.id)
                /\ Suspend(r, [pc |-> "deleteUser_11", id |-> rq.id,
                               status |-> findUserById(users, rq.id)])
        /\ UNCHANGED <<cache, now, last, posts, nextPost, notifications,
                       follows, messages, ioVars, sent, fault>>

\* deleteUser after dao.deleteUser: respond; no invalidateCache call
DeleteUserDeleted(r) ==
    /\ req[r].pc = "deleteUser_11"
    /\ Send(r, "deleteUser", req[r].id, 200,
            formatSuccessResponse(req[r].status), FALSE)
    /\ UNCHANGED <<cache, now, last, storeVars, ioVars, sent, fault>>

(***************************************************************************)
(* follows/dao.js, follows/routes.js                                       *)
(***************************************************************************)
\* the follows collection is a sequence of documents, in insertion order
followId(followerId, followingId) == followerId \o <<"-">> \o followingId

\* model.findOne({ follower, following }): the first match, or null
findOneFollow(fs, followerId, followingId) ==
    LET hits == SelectSeq(fs, LAMBDA f : /\ f.follower = followerId
                                         /\ f.following = followingId)
    IN  IF hits = <<>> THEN Null ELSE Head(hits)

\* a collection whose _id is not unique
createFollow_anyId(fs, doc) ==
    [follows |-> Append(fs, doc), threw |-> FALSE]

\* model.create(newFollow): _id is the collection's unique key, a second
\* document with the same _id is rejected
createFollow(fs, doc) ==
    IF \E i \in 1..Len(fs) : fs[i]._id = doc._id
    THEN [follows |-> fs, threw |-> TRUE]
    ELSE [follows |-> Append(fs, doc), threw |-> FALSE]

\* model.deleteOne({ follower, following }): the first match goes
deleteOneFollow(fs, followerId, followingId) ==
    LET hits == {i \in 1..Len(fs) : /\ fs[i].follower = followerId
                                    /\ fs[i].following = followingId}
        first == CHOOSE i \in hits : \A j \in hits : i <= j
    IN  IF hits = {}
        THEN fs
        ELSE SubSeq(fs, 1, first - 1) \o SubSeq(fs, first + 1, Len(fs))

\* the FOLLOW notification of followUser
followNotification(followingId, actor) ==
    [user |-> followingId, actor |-> actor, type |-> "FOLLOW", post |-> <<>>]

\* the two 'follow-updated' events of followUser and unfollowUser
followUpdated(followingId, currentUser, action) ==
    <<[room |-> followingId, event |-> "follow-updated",
       userId |-> followingId, followerId |-> currentUser,
       action |-> action],
      [room |-> currentUser, event |-> "follow-updated",
       userId |-> currentUser, followingId |-> followingId,
       action |-> action]>>

\* POST /api/follows: followUser up to the findOne of dao.followUser
FollowUser(r, session, followingId) ==
    /\ req[r].pc = "idle"
    /\ IF session = NoUser
       THEN Send(r, "followUser", followingId, 401,
                 [message |-> "You must be logged in"], FALSE)
       ELSE IF session = followingId
       THEN Send(r, "followUser", followingId, 400,
                 [message |-> "Cannot follow yourself"], FALSE)
       ELSE Suspend(r, [pc |-> "followUser", id |-> followingId,
                        session |-> session,
                        existingFollow |->
                            findOneFollow(follows, session, followingId)])
    /\ UNCHANGED <<cache, now, last, storeVars, ioVars, sent, fault>>

\* followUser once dao.followUser has returned follow: createNotification
FollowUserNotify(r, follow, dbOk) ==
    LET rq == req[r]
    IN  /\ notifications' =
               IF dbOk
               THEN notifications \cup {followNotification(rq.id, rq.session)}
               ELSE notifications
        /\ Suspend(r, [pc |-> "followUser_notification", id |-> rq.id,
                       session |-> rq.session, follow |-> follow,
                       threw |-> ~dbOk])

\* dao.followUser after findOne: the existing follow is the result, or
\* model.create runs
FollowUserFound(r, dbOk) ==
    LET rq == req[r]
        newFollow == [_id |-> followId(rq.session, rq.id),
                      follower |-> rq.session, following |-> rq.id]
        result == createFollow(follows, newFollow)
    IN  /\ rq.pc = "followUser"
        /\ IF rq.existingFollow # Null
           THEN /\ FollowUserNotify(r, rq.existingFollow, dbOk)
                /\ UNCHANGED follows
           ELSE /\ follows' = IF dbOk THEN result.follows ELSE follows
                /\ Suspend(r, [pc |-> "followUser_create", id |-> rq.id,
                               session |-> rq.session,
                               follow |-> newFollow,
                               threw |-> ~dbOk \/ result.threw])
                /\ UNCHANGED notifications
        /\ UNCHANGED <<cache, now, last, users, posts, nextPost, messages,
                       ioVars, sent, fault>>

\* followUser after model.create: the outer catch, or createNotification
FollowUserCreated(r, dbOk) ==
    LET rq == req[r]
    IN  /\ rq.pc = "followUser_create"
        /\ IF rq.threw
           THEN /\ Send(r, "followUser", rq.id, 500,
                        [error |-> "Failed to follow user"], FALSE)
                /\ UNCHANGED notifications
           ELSE FollowUserNotify(r, rq.follow, dbOk)
        /\ UNCHANGED <<cache, now, last, users, posts, nextPost, messages,
                       follows, ioVars, sent, fault>>

\* followUser after createNotification: the inner catch and res.json, or
\* findNotificationById
FollowUserNotification(r, dbOk) ==
    LET rq == req[r]
        n == followNotification(rq.id, rq.session)
    IN  /\ rq.pc = "followUser_notification"
        /\ IF rq.threw
           THEN SendAfter(r, "followUser", rq.id, 200, rq.follow, <<>>)
           ELSE Suspend(r, [pc |-> "followUser_notificationFound",
                            id |-> rq.id, session |-> rq.session,
                            follow |-> rq.follow,
                            populatedNotification |->
                                IF n \in notifications THEN n ELSE Null,
                            threw |-> ~dbOk])
        /\ UNCHANGED <<cache, now, last, storeVars, ioVars, sent, fault>>

\* followUser after findNotificationById: the emits of the inner try, its
\* catch, res.json(follow)
FollowUserNotificationFound(r) ==
    LET rq == req[r]
        notified == IF rq.populatedNotification # Null
                    THEN <<[room |-> rq.id, event |-> "new-notification"],
                           [room |-> rq.id,
                            event |-> "notification-count-updated"]>>
                    ELSE <<>>
        emitted == IF io.follows /\ ~rq.threw /\ "emit" \notin fault
                   THEN notified \o followUpdated(rq.id, rq.session, "follow")
                   ELSE <<>>
    IN  /\ rq.pc = "followUser_notificationFound"
        /\ SendAfter(r, "followUser", rq.id, 200, rq.follow,
                     [i \in 1..Len(emitted) |-> "emit"])
        /\ sent' = sent \cup eventsOf(emitted)
        /\ inbox' = deliver(inbox, emitted)
        /\ UNCHANGED <<cache, now, last, storeVars, wiring, fault>>

\* DELETE /api/follows/:followingId: unfollowUser up to the deleteOne of
\* dao.unfollowUser
UnfollowUser(r, session, followingId, dbOk) ==
    /\ req[r].pc = "idle"
    /\ IF session = NoUser
       THEN /\ Send(r, "unfollowUser", followingId, 401,
                    [message |-> "You must be logged in"], FALSE)
            /\ UNCHANGED follows
       ELSE /\ follows' = IF dbOk
                          THEN deleteOneFollow(follows, session, followingId)
                          ELSE follows
            /\ Suspend(r, [pc |-> "unfollowUser", id |-> followingId,
                           session |-> session, threw |-> ~dbOk])
    /\ UNCHANGED <<cache, now, last, users, posts, nextPost, notifications,
                   messages, ioVars, sent, fault>>

\* unfollowUser after deleteOne: the two emits, res.json, or the catch
UnfollowUserDeleted(r) ==
    LET rq == req[r]
        emitted == IF io.follows
                   THEN followUpdated(rq.id, rq.session, "unfollow")
                   ELSE <<>>
    IN  /\ rq.pc = "unfollowUser"
        /\ IF rq.threw \/ (io.follows /\ "emit" \in fault)
           THEN /\ Send(r, "unfollowUser", rq.id, 500,
                        [error |-> "Failed to unfollow user"], FALSE)
                /\ UNCHANGED <<sent, inbox>>
           ELSE /\ SendAfter(r, "unfollowUser", rq.id, 200,
                             [message |-> "Unfollowed successfully"],
                             [i \in 1..Len(emitted) |-> "emit"])
                /\ sent' = sent \cup eventsOf(emitted)
                /\ inbox' = deliver(inbox, emitted)
        /\ UNCHANGED <<cache, now, last, storeVars, wiring, fault>>

(***************************************************************************)
(* conversations/routes.js                                                 *)
(***************************************************************************)
Contents == {"", "hi"}

\* POST /api/conversations/send: sendMessage up to dao.createMessage
SendMessage(r, session, receiverId, content, dbOk) ==
    /\ req[r].pc = "idle"
    /\ Len(messages) < MaxMessages
    /\ IF session = NoUser
       THEN /\ Send(r, "sendMessage", receiverId, 401,
                    [message |-> "Authentication required"], FALSE)
            /\ UNCHANGED messages
       ELSE IF receiverId = NoUser \/ content = ""
       THEN /\ Send(r, "sendMessage", receiverId, 400,
                    [message |-> "Receiver and content required"], FALSE)
            /\ UNCHANGED messages
       ELSE IF ~dbOk
       THEN /\ Send(r, "sendMessage", receiverId, 500,
                    [message |-> "Failed to send message"], FALSE)
            /\ UNCHANGED messages
       ELSE LET message == [_id |-> Len(messages) + 1, senderId |-> session,
                            receiverId |-> receiverId, content |-> content]
            IN  /\ messages' = Append(messages, message)
                /\ Suspend(r, [pc |-> "sendMessage_created",
                               id |-> receiverId, session |-> session,
                               message |-> message])
    /\ UNCHANGED <<cache, now, last, users, posts, nextPost, notifications,
                   follows, ioVars, sent, fault>>

\* sendMessage after dao.createMessage: the four emits, res.json(message)
SendMessageCreated(r) ==
    LET rq == req[r]
        emitted == IF io.conversations
                   THEN <<[room |-> rq.id, event |-> "new-message",
                           message |-> rq.message],
                          [room |-> rq.session, event |-> "new-message",
                           message |-> rq.message],
                          [room |-> rq.session,
                           event |-> "conversation-updated"],
                          [room |-> rq.id,
                           event |-> "conversation-updated"]>>
                   ELSE <<>>
    IN  /\ rq.pc = "sendMessage_created"
        /\ IF io.conversations /\ "emit" \in fault
           THEN /\ Send(r, "sendMessage", rq.id, 500,
                        [message |-> "Failed to send message"], FALSE)
                /\ UNCHANGED <<inbox, sent>>
           ELSE /\ Send(r, "sendMessage", rq.id, 200, rq.message, FALSE)
                /\ sent' = sent \cup eventsOf(emitted)
                /\ inbox' = deliver(inbox, emitted)
        /\ UNCHANGED <<cache, now, last, storeVars, wiring, fault>>

(***************************************************************************)
(* Failures of the cache and of the socket server                          *)
(***************************************************************************)
Faults == {"Map.delete", "emit"}

\* from now on cache.delete(key) throws, or io.to(room).emit throws
Break(f) ==
    /\ f \notin fault
    /\ fault' = fault \cup {f}
    /\ UNCHANGED <<cache, now, last, storeVars, req, resp, ioVars, sent>>

\* the failures are over
Repair ==
    /\ fault # {}
    /\ fault' = {}
    /\ UNCHANGED <<cache, now, last, storeVars, req, resp, ioVars, sent>>

(***************************************************************************)
(* Direct use of the cache module                                          *)
(***************************************************************************)
\* the entries a caller stores in one turn of the event loop to fill the
\* cache: one short of the capacity, so that two more keys overflow it
Digits == <<"0", "1", "2", "3", "4", "5", "6", "7", "8", "9", "a", "b">>
FillCount == MAX_CACHE_SIZE - 1
FillKeySeq == [i \in 1..FillCount |-> getCacheKey(S_user, <<Digits[i]>>)]
FillKeys == {FillKeySeq[i] : i \in 1..FillCount}
K_post1 == getCacheKey(S_post, <<"1">>)
K_postsList == getCacheKey(S_posts, <<"l", "i", "s", "t">>)
ProbeKeys == {K_post1, K_postsList}
Values == {[v |-> 1], [v |-> 2]}
FillValue == [v |-> 0]
Patterns == {S_user \o Colon \o Star, S_post \o Colon \o Star,
             S_posts \o Colon \o Star}

\* consecutive set calls, one per key of keys, in order
RECURSIVE setAll(_, _, _, _, _)
setAll(c, t, keys, data, ttl) ==
    IF keys = <<>>
    THEN c
    ELSE setAll(set(c, t, Head(keys), data, ttl), t, Tail(keys), data, ttl)

Init ==
    /\ cache = <<>>
    /\ now = 0
    /\ last = [op |-> "none"]
    /\ users = [id \in UserIds |-> InitUser(id)]
    /\ posts = [id \in {P1} |->
                   [_id |-> P1, creator |-> U1, caption |-> "c0",
                    likes |-> <<>>, createdAt |-> 1]]
    /\ nextPost = 2
    /\ notifications = {}
    /\ messages = <<>>
    /\ follows = <<>>
    /\ req = [r \in Reqs |-> Idle]
    /\ resp = [r \in Reqs |-> NoResponse]
    /\ io = [posts |-> FALSE, follows |-> FALSE, reviews |-> FALSE,
             conversations |-> TRUE]
    /\ sockets = [s \in Sockets |-> Unconnected]
    /\ userSockets = <<>>
    /\ inbox = [s \in Sockets |-> <<>>]
    /\ sent = {}
    /\ fault = {}

\* Date.now() advances
Tick ==
    /\ now < MaxTime
    /\ now' = now + 1
    /\ UNCHANGED <<cache, last, appVars>>

CallSet(key, data, ttl) ==
    /\ cache' = set(cache, now, key, data, ttl)
    /\ last' = [op |-> "set", key |-> key, data |-> data, ttl |-> ttl,
                ok |-> TRUE,
                evicted |-> evictedKeys(cache)]
    /\ UNCHANGED <<now, appVars>>

\* a caller that finds none of its entries stores the fill entries one
\* after the other in the same turn
WarmUp ==
    /\ FillKeys \cap mapKeys(cache) = {}
    /\ cache' = setAll(cache, now, FillKeySeq, FillValue, MaxTime + 1)
    /\ last' = [op |-> "warmup"]
    /\ UNCHANGED <<now, appVars>>

CallGet(key) ==
    /\ cache' = get(cache, now, key).cache
    /\ last' = [op |-> "get", key |-> key, ret |-> get(cache, now, key).ret]
    /\ UNCHANGED <<now, appVars>>

CallDel(key) ==
    /\ cache' = del(cache, key).cache
    /\ last' = [op |-> "del", key |-> key, deleted |-> del(cache, key).ret]
    /\ UNCHANGED <<now, appVars>>

CallDelPattern(pattern) ==
    /\ cache' = delPattern(cache, pattern).cache
    /\ last' = [op |-> "delPattern", pattern |-> pattern,
                count |-> delPattern(cache, pattern).ret]
    /\ UNCHANGED <<now, appVars>>

\* invalidateCache(prefix) and invalidateCache(prefix, id) called directly
Prefixes == {S_user, S_post, S_posts}
InvalidateIds(prefix) ==
    {<<>>} \cup {id \in {<<"1">>, <<"l", "i", "s", "t">>} :
                    getCacheKey(prefix, id) \in ProbeKeys}

CallInvalidateCache(prefix, id) ==
    /\ cache' = invalidateCache(cache, prefix, id)
    /\ last' = [op |-> "invalidateCache", prefix |-> prefix, id |-> id,
                removed |-> invalidateCache(cache, prefix, id) # cache]
    /\ UNCHANGED <<now, appVars>>

CallClear ==
    /\ cache' = clear(cache).cache
    /\ last' = [op |-> "clear", count |-> clear(cache).ret]
    /\ UNCHANGED <<now, appVars>>

\* setInterval(cleanup, 5 * 60 * 1000)
Sweep ==
    /\ cache' = cleanup(cache, now).cache
    /\ last' = [op |-> "cleanup", count |-> cleanup(cache, now).ret]
    /\ UNCHANGED <<now, appVars>>

NextCache ==
    \/ Tick
    \/ \E key \in ProbeKeys, data \in Values, ttl \in 1..MaxTtl :
           CallSet(key, data, ttl)
    \/ WarmUp
    \/ \E key \in ProbeKeys : CallGet(key)
    \/ \E key \in ProbeKeys : CallDel(key)
    \/ \E pattern \in Patterns : CallDelPattern(pattern)
    \/ \E prefix \in Prefixes :
           \E id \in InvalidateIds(prefix) : CallInvalidateCache(prefix, id)
    \/ CallClear
    \/ Sweep

SpecCache == Init /\ [][NextCache]_vars

Sessions == UserIds \cup {NoUser}

\* the slot of the client that sends every kind of request, and the slot of
\* a second client that only reads
Writer == "r1"
Reader == "r2"

(***************************************************************************)
(* cacheMiddleware in front of a handler that answers res.json(data)       *)
(***************************************************************************)
Methods == {"GET", "POST", "PUT", "DELETE", "PATCH"}

\* a middleware that asks only skipCache and forgets the method
bypasses_skipCacheOnly(method, skip) == skip

\* req.method !== "GET" || skipCache(req)
bypasses(method, skip) == method # "GET" \/ skip

\* the middleware function for a request with this method, skipCache(req)
\* returning skip and keyGenerator(req) returning key
Intercept(r, method, skip, key, ttl) ==
    LET cached == get(cache, now, key)
    IN  /\ req[r].pc = "idle"
        /\ IF bypasses(method, skip)
           THEN /\ Suspend(r, [pc |-> "handler", id |-> key,
                               method |-> method, wrapped |-> FALSE])
                /\ UNCHANGED <<cache, last>>
           ELSE /\ cache' = cached.cache
                /\ last' = [op |-> "get", key |-> key, ret |-> cached.ret]
                /\ IF cached.ret # Null
                   THEN Send(r, "handler", key, 200, cached.ret, TRUE)
                   ELSE Suspend(r, [pc |-> "handler", id |-> key,
                                    method |-> method, wrapped |-> TRUE,
                                    cacheKey |-> key, ttl |-> ttl])
        /\ UNCHANGED <<now, storeVars, ioVars, sent, fault>>

\* the handler behind the middleware calls res.json(data)
HandlerJson(r, data) ==
    LET rq == req[r]
    IN  /\ rq.pc = "handler"
        /\ IF rq.wrapped
           THEN /\ cache' = set(cache, now, rq.cacheKey, data, rq.ttl)
                /\ last' = [op |-> "set", key |-> rq.cacheKey,
                            data |-> data, ttl |-> rq.ttl, ok |-> TRUE,
                            evicted |-> evictedKeys(cache)]
           ELSE UNCHANGED <<cache, last>>
        /\ Send(r, "handler", rq.id, 200, data, FALSE)
        /\ UNCHANGED <<now, storeVars, ioVars, sent, fault>>

\* requests of every method through the middleware while time passes
NextInterceptor ==
    \/ Tick
    \/ \E method \in Methods, skip \in BOOLEAN, key \in ProbeKeys,
          ttl \in 1..MaxTtl :
           Intercept(Writer, method, skip, key, ttl)
    \/ \E data \in Values : HandlerJson(Writer, data)

SpecInterceptor == Init /\ [][NextInterceptor]_vars


\* GET /api/posts/:postId for the ids, the store answering as in oks
GetPostSteps(r, ids, oks) ==
    \/ \E postId \in ids, dbOk \in oks : GetPostById(r, postId, dbOk)
    \/ GetPostByIdResume(r)

\* PUT and DELETE /api/posts/:postId
EditPostSteps(r) ==
    \/ \E postId \in PostIds, session \in Sessions, caption \in Captions :
           UpdatePost(r, postId, session, caption)
    \/ \E dbOk \in BOOLEAN : UpdatePostFound(r, dbOk)
    \/ UpdatePostUpdated(r)
    \/ UpdatePostReread(r)
    \/ \E postId \in PostIds, session \in Sessions :
           DeletePost(r, postId, session)
    \/ \E dbOk \in BOOLEAN : DeletePostFound(r, dbOk)
    \/ DeletePostDeleted(r)

\* PUT /api/posts/:postId/like
LikePostSteps(r) ==
    \/ \E postId \in PostIds, session \in Sessions,
          likesArray \in LikesArrays :
           LikePost(r, postId, session, likesArray)
    \/ \E dbOk \in BOOLEAN : LikePostFound(r, dbOk)
    \/ LikePostUpdateOne(r)
    \/ LikePostUpdated(r)
    \/ \E dbOk \in BOOLEAN : LikePostPopulated(r, dbOk)
    \/ LikePostNotification(r)
    \/ LikePostNotificationFound(r)

\* GET /api/posts
GetRecentPostsSteps(r) ==
    \/ \E sortBy \in SortBys, dbOk \in BOOLEAN :
           GetRecentPosts(r, sortBy, dbOk)
    \/ GetRecentPostsResume(r)

\* POST /api/posts
CreatePostSteps(r) ==
    \/ \E session \in Sessions, caption \in Captions :
           CreatePost(r, session, caption)
    \/ \E dbOk \in BOOLEAN : CreatePostProcessed(r, dbOk)
    \/ CreatePostCreated(r)
    \/ CreatePostPopulated(r)

\* GET /api/users/:userId for the ids, the store answering as in oks
GetUserSteps(r, ids, oks) ==
    \/ \E userId \in ids, session \in Sessions, dbOk \in oks :
           GetUserById(r, userId, session, dbOk)
    \/ GetUserByIdResume(r)

\* PUT /api/users/:userId, POST /api/users/signin, DELETE /api/users/:userId
\* for the ids
MutateUserSteps(r, ids) ==
    \/ \E userId \in ids, name \in Names, dbOk \in BOOLEAN :
           UpdateUser(r, userId, name, dbOk)
    \/ UpdateUserUpdated(r)
    \/ UpdateUserReread(r)
    \/ \E userId \in ids, isPasswordValid \in BOOLEAN :
           Signin(r, userId, isPasswordValid)
    \/ SigninFound(r)
    \/ \E dbOk \in BOOLEAN : SigninCompared(r, dbOk)
    \/ SigninUpdated(r)
    \/ SigninReread(r)
    \/ \E userId \in ids, session \in Sessions :
           DeleteUser(r, userId, session)
    \/ \E dbOk \in BOOLEAN : DeleteUserPosts(r, dbOk)
    \/ \E dbOk \in BOOLEAN : DeleteUserPostNotifications(r, dbOk)
    \/ \E dbOk \in BOOLEAN : DeleteUserLikes(r, dbOk)
    \/ \E dbOk \in BOOLEAN : DeleteUserFollows(r, dbOk)
    \/ \E dbOk \in BOOLEAN : DeleteUserNotifications(r, dbOk)
    \/ \E dbOk \in BOOLEAN : DeleteUserDocument(r, dbOk)
    \/ DeleteUserDeleted(r)

\* one request at a time: the profile of U1 is read by anybody, changed and
\* deleted, and the post of U1 is read
NextUsers ==
    \/ GetUserSteps(Writer, {U1}, BOOLEAN)
    \/ GetPostSteps(Writer, {P1}, BOOLEAN)
    \/ MutateUserSteps(Writer, {U1})

SpecUsers == Init /\ [][NextUsers]_vars

\* POST /api/conversations/send
SendMessageSteps(r) ==
    \/ \E session \in Sessions, receiverId \in Sessions,
          content \in Contents, dbOk \in BOOLEAN :
           SendMessage(r, session, receiverId, content, dbOk)
    \/ SendMessageCreated(r)

\* one request at a time while the cache's delete or the socket server's
\* emit may be failing
NextFaults ==
    \/ \E f \in Faults : Break(f)
    \/ Repair
    \/ GetPostSteps(Writer, {P1}, {TRUE})
    \/ EditPostSteps(Writer)
    \/ LikePostSteps(Writer)
    \/ SendMessageSteps(Writer)

SpecFaults == Init /\ [][NextFaults]_vars

\* one client changing posts while it and a second client read them
NextPosts ==
    \/ \E r \in Reqs : GetPostSteps(r, PostIds, BOOLEAN)
    \/ EditPostSteps(Writer)
    \/ LikePostSteps(Writer)

\* one client sending one request after the other: it reads posts and the
\* feed, and likes and unlikes
NextSequential ==
    \/ GetPostSteps(Writer, PostIds, BOOLEAN)
    \/ GetRecentPostsSteps(Writer)
    \/ LikePostSteps(Writer)

\* one client creating posts and reading the feed, one request at a time
NextFeed ==
    \/ GetRecentPostsSteps(Writer)
    \/ CreatePostSteps(Writer)

SpecFeed == Init /\ [][NextFeed]_vars

SpecSequential == Init /\ [][NextSequential]_vars

SpecPosts == Init /\ [][NextPosts]_vars

\* the posts module handed the socket server, PostRoutes(app, io), as its
\* signature provides and as ConversationRoutes is mounted
InitRealtime ==
    \E wired \in {[posts |-> TRUE, follows |-> FALSE, reviews |-> FALSE,
                   conversations |-> TRUE]} :
        /\ cache = <<>>
        /\ now = 0
        /\ last = [op |-> "none"]
        /\ users = [id \in UserIds |-> InitUser(id)]
        /\ posts = [id \in {P1} |->
                       [_id |-> P1, creator |-> U1, caption |-> "c0",
                        likes |-> <<>>, createdAt |-> 1]]
        /\ nextPost = 2
        /\ notifications = {}
        /\ messages = <<>>
        /\ follows = <<>>
        /\ req = [r \in Reqs |-> Idle]
        /\ resp = [r \in Reqs |-> NoResponse]
        /\ io = wired
        /\ sockets = [s \in Sockets |-> Unconnected]
        /\ userSockets = <<>>
        /\ inbox = [s \in Sockets |-> <<>>]
        /\ sent = {}
        /\ fault = {}

\* likes and post creations, one request at a time, in an application whose
\* posts module emits
NextRealtime ==
    \/ LikePostSteps(Writer)
    \/ CreatePostSteps(Writer)
    \/ \E followers \in FollowerLists, dbOk \in BOOLEAN :
           CreatePostFollowers(Writer, followers, dbOk)

SpecRealtime == InitRealtime /\ [][NextRealtime]_vars

\* connections that open, authenticate and close while messages are sent, in
\* the application as index.js wires it
SocketSteps ==
    \E s \in Sockets :
        \/ Connect(s)
        \/ \E userId \in Sessions : Authenticate(s, userId)
        \/ Disconnect(s)

NextSockets ==
    \/ SocketSteps
    \/ SendMessageSteps(Writer)

SpecSockets == Init /\ [][NextSockets]_vars

\* connections that open, authenticate and close while posts are liked, in
\* the application as index.js wires it
NextLikes ==
    \/ SocketSteps
    \/ LikePostSteps(Writer)

SpecLikes == Init /\ [][NextLikes]_vars

\* POST /api/follows and DELETE /api/follows/:followingId
FollowSteps(r) ==
    \/ \E session \in Sessions, followingId \in UserIds :
           FollowUser(r, session, followingId)
    \/ \E dbOk \in BOOLEAN : FollowUserFound(r, dbOk)
    \/ \E dbOk \in BOOLEAN : FollowUserCreated(r, dbOk)
    \/ \E dbOk \in BOOLEAN : FollowUserNotification(r, dbOk)
    \/ FollowUserNotificationFound(r)
    \/ \E session \in Sessions, followingId \in UserIds, dbOk \in BOOLEAN :
           UnfollowUser(r, session, followingId, dbOk)
    \/ UnfollowUserDeleted(r)

\* two clients follow and unfollow at the same time, in the application as
\* index.js wires it
NextFollows == \E r \in Reqs : FollowSteps(r)

SpecFollows == Init /\ [][NextFollows]_vars

\* the follows module handed the socket server, FollowRoutes(app, io), as
\* its signature provides
InitFollowsIo ==
    /\ cache = <<>>
    /\ now = 0
    /\ last = [op |-> "none"]
    /\ users = [id \in UserIds |-> InitUser(id)]
    /\ posts = [id \in {P1} |->
                   [_id |-> P1, creator |-> U1, caption |-> "c0",
                    likes |-> <<>>, createdAt |-> 1]]
    /\ nextPost = 2
    /\ notifications = {}
    /\ messages = <<>>
    /\ follows = <<>>
    /\ req = [r \in Reqs |-> Idle]
    /\ resp = [r \in Reqs |-> NoResponse]
    /\ io = [posts |-> FALSE, follows |-> TRUE, reviews |-> FALSE,
             conversations |-> TRUE]
    /\ sockets = [s \in Sockets |-> Unconnected]
    /\ userSockets = <<>>
    /\ inbox = [s \in Sockets |-> <<>>]
    /\ sent = {}
    /\ fault = {}

\* follows and unfollows, one request at a time, in an application whose
\* follows module emits
NextFollowsIo == FollowSteps(Writer)

SpecFollowsIo == InitFollowsIo /\ [][NextFollowsIo]_vars

\* Date.now() advances, for as long as the longest ttl takes to run out
Elapse ==
    /\ now < MaxAge
    /\ now' = now + 1
    /\ UNCHANGED <<cache, last, appVars>>

\* reads of a post, of the feed and of a profile, one at a time, while time
\* passes
NextAging ==
    \/ Elapse
    \/ GetPostSteps(Writer, {P1}, {TRUE})
    \/ GetRecentPosts(Writer, "latest", TRUE)
    \/ GetRecentPostsResume(Writer)
    \/ GetUserById(Writer, U1, U1, TRUE)
    \/ GetUserByIdResume(Writer)

SpecAging == Init /\ [][NextAging]_vars

\* keys of three namespaces, among them a key of the default keyGenerator,
\* which appends the query to the id: 'post:1:q' next to 'post:1'
K_post1q == getCacheKey(S_post, <<"1", ":", "q">>)
K_post2 == getCacheKey(S_post, <<"2">>)
K_user1 == getCacheKey(S_user, <<"1">>)
NamespaceKeys == {K_post1, K_post1q, K_post2, K_postsList, K_user1}
NamespaceIds == {<<>>, <<"1">>, <<"2">>, <<"l", "i", "s", "t">>}

\* set and invalidateCache called directly on these keys
NextInvalidate ==
    \/ \E key \in NamespaceKeys, data \in Values : CallSet(key, data, 1)
    \/ \E prefix \in Prefixes, id \in NamespaceIds :
           CallInvalidateCache(prefix, id)

SpecInvalidate == Init /\ [][NextInvalidate]_vars

\* the steps of likePost after its first await
LikePostRest(r) ==
    \/ \E dbOk \in BOOLEAN : LikePostFound(r, dbOk)
    \/ LikePostUpdateOne(r)
    \/ LikePostUpdated(r)
    \/ \E dbOk \in BOOLEAN : LikePostPopulated(r, dbOk)
    \/ LikePostNotification(r)
    \/ LikePostNotificationFound(r)

\* two clients that both read post p1 with no likes and toggle their like at
\* the same time: each sends the array it read plus its own id
NextLikeRace ==
    \/ LikePost(Writer, P1, U1, <<U1>>)
    \/ LikePost(Reader, P1, U2, <<U2>>)
    \/ \E r \in Reqs : LikePostRest(r)

SpecLikeRace == Init /\ [][NextLikeRace]_vars

\* connections that open, authenticate and close while posts are liked, the
\* posts module emitting
NextBroadcast ==
    \/ SocketSteps
    \/ /\ \A s \in Sockets : Len(inbox[s]) < MaxInbox
       /\ \E session \in Sessions, likesArray \in LikesArrays :
              LikePost(Writer, P1, session, likesArray)
    \/ LikePostRest(Writer)

SpecBroadcast == InitRealtime /\ [][NextBroadcast]_vars

\* the steps of dao.deleteUser and the answer of deleteUser
DeleteUserRest(r) ==
    \/ \E dbOk \in BOOLEAN : DeleteUserPosts(r, dbOk)
    \/ \E dbOk \in BOOLEAN : DeleteUserPostNotifications(r, dbOk)
    \/ \E dbOk \in BOOLEAN : DeleteUserLikes(r, dbOk)
    \/ \E dbOk \in BOOLEAN : DeleteUserFollows(r, dbOk)
    \/ \E dbOk \in BOOLEAN : DeleteUserNotifications(r, dbOk)
    \/ \E dbOk \in BOOLEAN : DeleteUserDocument(r, dbOk)
    \/ DeleteUserDeleted(r)

\* the steps of followUser after its first await
FollowUserRest(r) ==
    \/ \E dbOk \in BOOLEAN : FollowUserFound(r, dbOk)
    \/ \E dbOk \in BOOLEAN : FollowUserCreated(r, dbOk)
    \/ \E dbOk \in BOOLEAN : FollowUserNotification(r, dbOk)
    \/ FollowUserNotificationFound(r)

\* the steps of createPost after its first await
CreatePostRest(r) ==
    \/ \E dbOk \in BOOLEAN : CreatePostProcessed(r, dbOk)
    \/ CreatePostCreated(r)
    \/ CreatePostPopulated(r)

\* u1 deletes their account in one slot while, in the other, either user
\* creates a post, likes a post or follows the other user
NextCascade ==
    \/ DeleteUser(Writer, U1, U1)
    \/ DeleteUserRest(Writer)
    \/ \E session \in UserIds : CreatePost(Reader, session, "c1")
    \/ CreatePostRest(Reader)
    \/ \E postId \in PostIds, session \in UserIds :
           LikePost(Reader, postId, session, <<session>>)
    \/ LikePostRest(Reader)
    \/ \E session \in UserIds, followingId \in UserIds :
           FollowUser(Reader, session, followingId)
    \/ FollowUserRest(Reader)

SpecCascade == Init /\ [][NextCascade]_vars

Next == NextCache
Spec == Init /\ [][Next]_vars

(***************************************************************************)
(* Properties of the cache module                                          *)
(***************************************************************************)
CacheKeys == ProbeKeys \cup FillKeys

\* Every direct cache call records itself in last, and Tick alone moves the
\* clock: the call a step of SpecCache makes is read from last'.
IsCall(ops) == now' = now /\ last'.op \in ops

\* the step is a set call that writes key
IsSetOf(key) ==
    \/ IsCall({"set"}) /\ last'.key = key
    \/ IsCall({"warmup"}) /\ key \in FillKeys

\* the step is a del, delPattern, invalidateCache or clear call
IsExplicitRemoval ==
    IsCall({"del", "delPattern", "invalidateCache", "clear"})

\* the step is a set call, or a run of set calls, whose eviction loop
\* deletes key
IsEvictionOf(key) ==
    \/ IsCall({"set"}) /\ key \in last'.evicted
    \/ IsCall({"warmup"}) /\ ~mapHas(cache', key)

\* right after set(k, v, ttl), get(k) returns v
SetThenGet ==
    IsCall({"set"}) =>
        /\ get(cache', now', last'.key).ret = last'.data
        /\ mapGet(cache', last'.key).expiresAt = now + last'.ttl

\* an entry written earlier is still returned while its ttl has not elapsed
StaysUntil(key, removed) ==
    (/\ mapHas(cache, key)
     /\ now' <= mapGet(cache, key).expiresAt
     /\ ~IsSetOf(key)
     /\ ~removed)
        => get(cache', now', key).ret = mapGet(cache, key).data

\* an entry whose ttl has elapsed is not returned any more
GoneAfter(key) ==
    (/\ mapHas(cache, key)
     /\ now' > mapGet(cache, key).expiresAt
     /\ ~IsSetOf(key))
        => get(cache', now', key).ret = Null

\* C1 as stated: after set(k, v, ttl), get(k) returns v until ttl elapses
\* or del / delPattern / clear removes the entry, and returns null once
\* ttl has elapsed.
C1_Original ==
    [][/\ SetThenGet
       /\ \A key \in CacheKeys :
              /\ StaysUntil(key, IsExplicitRemoval)
              /\ GoneAfter(key)]_vars

\* C1 amended: after set(k, v, ttl) at time t, get(k) returns v while
\* now <= t + ttl unless del / delPattern / clear removed the entry or a
\* later set on a full cache evicted it; once now > t + ttl, get(k)
\* returns null.
C1_SetGetTtl ==
    [][/\ SetThenGet
       /\ \A key \in CacheKeys :
              /\ StaysUntil(key, IsExplicitRemoval \/ IsEvictionOf(key))
              /\ GoneAfter(key)]_vars

\* a get that returned the stored value at the last instant of its ttl
C1_Witness ==
    /\ last.op = "get"
    /\ last.ret \in Values
    /\ mapHas(cache, last.key)
    /\ mapGet(cache, last.key).expiresAt = now
    /\ mapGet(cache, last.key).createdAt < now

\* C9: the number of cache entries never exceeds MAX_CACHE_SIZE.
C9_Capacity == Len(cache) <= MAX_CACHE_SIZE

\* a set on a full cache has evicted and inserted, leaving the cache full
C9_Witness ==
    /\ last.op = "set"
    /\ last.evicted # {}
    /\ last.key \notin last.evicted
    /\ Len(cache) = MAX_CACHE_SIZE
(***************************************************************************)
(* Reads of one post against its mutations                                 *)
(***************************************************************************)
postKey(id) == getCacheKey(S_post, id)

\* the step answers a GET /api/posts/:postId of slot r from the cache
IsGetPostHit(r) ==
    /\ req[r].pc = "idle"
    /\ resp'[r] # resp[r]
    /\ resp'[r].route = "getPostById"
    /\ resp'[r].hit

\* the step answers a GET /api/posts/:postId of slot r from the handler
IsGetPostMiss(r) ==
    /\ req[r].pc = "getPostById"
    /\ req'[r].pc = "idle"

\* a mutation of a post has written the store and has not yet invalidated
InMutationWindow ==
    \E r \in Reqs :
        req[r].pc \in {"updatePost_updated", "updatePost_reread",
                       "deletePost_deleted", "likePost_updateOne",
                       "likePost_findOne", "likePost_populated",
                       "likePost_notification", "likePost_notificationFound"}

\* the bodies the read handler behind key can answer with on the store
\* (ps, us), to any session
FreshBodies(key, ps, us) ==
    UNION {IF key = postKey(id)
           THEN {getPostByIdResponse(findPostById(ps, us, id)).body,
                 getPostByIdResponse(DbError).body}
           ELSE {} : id \in PostIds}
    \cup UNION {IF key = getCacheKey(S_user, id)
                THEN {findUserByIdResponse(findUserById(us, id), s, id).body :
                          s \in Sessions}
                     \cup {findUserByIdResponse(DbError, NoUser, id).body}
                ELSE {} : id \in UserIds}
    \cup UNION {IF key = getCacheKey(S_posts, postsQueryId(sortBy))
                THEN {formatSuccessResponseArray(
                          findAllPosts(ps, us, IF sortBy = "" THEN "latest"
                                               ELSE sortBy)),
                      formatErrorResponse("Failed to fetch posts",
                                          "INTERNAL_ERROR")}
                ELSE {} : sortBy \in SortBys}

\* C2: when no mutation of a post is between its store write and its
\* invalidation, a GET of a post that is answered from the cache carries
\* what the handler would answer from the store at that moment, whatever
\* GETs ran concurrently with the mutations before.
C2_NoStaleRead ==
    [][\A r \in Reqs :
           (IsGetPostHit(r) /\ ~InMutationWindow)
               => resp'[r].body
                      \in FreshBodies(postKey(resp'[r].id), posts, users)]_vars

\* C4: no cache entry ever holds an error body, so none can be replayed.
C4_NoErrorCached ==
    \A i \in 1..Len(cache) : "error" \notin DOMAIN cache[i].data

\* the step sends the 200 of likePost on slot r
IsLikeSuccess(r) ==
    /\ req[r].pc \in {"likePost_populated", "likePost_notification",
                      "likePost_notificationFound"}
    /\ req'[r].pc = "idle"
    /\ resp'[r].status = 200

\* the client of slot r, whose last answer was the 200 of a like, sends a
\* GET of the same post in this step
IsGetAfterLike(r) ==
    /\ req[r].pc = "idle"
    /\ resp[r].route = "likePost"
    /\ resp[r].status = 200
    /\ \/ req'[r].pc = "getPostById" /\ req'[r].id = resp[r].id
       \/ resp'[r].route = "getPostById" /\ resp'[r].id = resp[r].id
                                         /\ resp'[r] # resp[r]

\* C3: with one request at a time, a successful like leaves the new likes in
\* the store, no entry 'post:<id>' and no entry under 'posts:'; the GET of
\* that post that follows it misses the cache, reads the post as the like
\* left it, and answers 200 with that post.
C3_LikeThenGetIsFresh ==
    [][\A r \in Reqs :
           /\ IsLikeSuccess(r) =>
                  /\ posts'[req[r].id].likes = req[r].likesArray
                  /\ postKey(req[r].id) \notin mapKeys(cache')
                  /\ \A i \in 1..Len(cache') :
                         ~startsWith(cache'[i].key, S_posts \o Colon)
           /\ IsGetAfterLike(r) =>
                  /\ req'[r].pc = "getPostById"
                  /\ req'[r].post # DbError =>
                         /\ req'[r].post = resp[r].body
                         /\ req'[r].post.likes = posts[resp[r].id].likes
           /\ (IsGetPostMiss(r) /\ req[r].post \notin {DbError, Null}) =>
                  /\ resp'[r].status = 200
                  /\ resp'[r].body.documents = <<req[r].post>>]_vars

\* a like of P1 has written the store and is about to invalidate, while the
\* cache holds P1 with the old likes next to a cached feed
C3_Witness ==
    /\ req[Writer].pc = "likePost_notificationFound"
    /\ req[Writer].id = P1
    /\ mapHas(cache, postKey(P1))
    /\ "documents" \in DOMAIN mapGet(cache, postKey(P1)).data
    /\ mapGet(cache, postKey(P1)).data.documents[1].likes # posts[P1].likes
    /\ \E i \in 1..Len(cache) : startsWith(cache[i].key, S_posts \o Colon)

(***************************************************************************)
(* Reads of a profile against the sessions and the mutations               *)
(***************************************************************************)
\* the step answers a GET /api/users/:userId of slot r from the cache
IsGetUserHit(r) ==
    /\ req[r].pc = "idle"
    /\ resp'[r] # resp[r]
    /\ resp'[r].route = "findUserById"
    /\ resp'[r].hit

IsMutationSuccess(r) ==
    /\ req[r].pc # "idle"
    /\ req'[r].pc = "idle"
    /\ resp'[r].route \in {"createPost", "updatePost", "deletePost",
                           "likePost", "updateUser", "signin", "deleteUser"}
    /\ resp'[r].status \in {200, 201}

\* C6: when a mutation answers with success, every entry that is left in
\* the cache holds a body its read handler can answer with on the store as
\* the mutation left it.
C6_MutationLeavesCacheFresh ==
    [][\A r \in Reqs :
           IsMutationSuccess(r)
               => \A i \in 1..Len(cache') :
                      cache'[i].data
                          \in FreshBodies(cache'[i].key, posts', users')]_vars

(***************************************************************************)
(* Mutations while the cache or the socket server fails                    *)
(***************************************************************************)
\* the step answers a mutation of slot r whose store write has succeeded
IsAnswerAfterWrite(r) ==
    /\ req[r].pc \in {"updatePost_reread", "deletePost_deleted",
                      "likePost_populated", "likePost_notification",
                      "likePost_notificationFound", "sendMessage_created"}
    /\ req'[r].pc = "idle"

\* C7: while only the cache's delete throws, a mutation whose store write
\* has succeeded answers with its success response.
C7_InvalidationFailureSwallowed ==
    [][\A r \in Reqs :
           (IsAnswerAfterWrite(r) /\ fault = {"Map.delete"})
               => resp'[r].status = 200]_vars

\* C8: while only emit throws, a mutation whose store write has succeeded
\* answers with its success response.
C8_EmitFailureSwallowed ==
    [][\A r \in Reqs :
           (IsAnswerAfterWrite(r) /\ fault = {"emit"})
               => resp'[r].status = 200]_vars

\* C10: the body a miss delivers is the body stored under the request's key,
\* and the body a hit delivers is the body stored under the request's key;
\* so a hit repeats the body of the miss that stored the entry.
C10_HitRepeatsMiss ==
    [][\A r \in Reqs :
           /\ IsGetPostMiss(r) =>
                  /\ mapHas(cache', req[r].cacheKey)
                  /\ mapGet(cache', req[r].cacheKey).data = resp'[r].body
           /\ IsGetPostHit(r) =>
                  /\ mapHas(cache, postKey(resp'[r].id))
                  /\ mapGet(cache, postKey(resp'[r].id)).data = resp'[r].body
                  /\ mapGet(cache', postKey(resp'[r].id)).data
                         = resp'[r].body]_vars

\* a stored success response was delivered again from the cache
C10_Witness ==
    \E r \in Reqs :
        /\ resp[r].route = "getPostById"
        /\ resp[r].hit
        /\ "documents" \in DOMAIN resp[r].body
        /\ mapHas(cache, postKey(resp[r].id))

(***************************************************************************)
(* The middleware on requests it must not cache                            *)
(***************************************************************************)
\* the step is the middleware taking a request of slot r that is not a GET
\* or that skipCache rejects
IsBypassed(r) ==
    /\ req[r].pc = "idle"
    /\ req'[r].pc = "handler"
    /\ ~req'[r].wrapped

without(c, keys) == SelectSeq(c, LAMBDA e : e.key \notin keys)

\* the step invalidates the whole namespace prefix, by invalidateCache(prefix)
\* or by the delPattern call it makes
IsInvalidationOf(prefix) ==
    \/ /\ IsCall({"invalidateCache"})
       /\ last'.prefix = prefix
       /\ last'.id = <<>>
    \/ /\ IsCall({"delPattern"})
       /\ last'.pattern = prefix \o Colon \o Star

\* C12: invalidating the namespace 'post' removes 'post:1' and leaves
\* 'posts:list' and every 'user:' entry as they were; invalidating 'posts'
\* removes 'posts:list' and leaves 'post:1' and the 'user:' entries;
\* invalidating 'user' removes the 'user:' entries and neither of the other
\* two.  invalidateCache(prefix, id) removes that one key and nothing else,
\* and a set of 'post:1' never rewrites the entry of 'posts:list' nor the
\* reverse.
C12_NamespaceIsolation ==
    [][/\ IsInvalidationOf(S_post) => cache' = without(cache, {K_post1})
       /\ IsInvalidationOf(S_posts) => cache' = without(cache, {K_postsList})
       /\ IsInvalidationOf(S_user) => cache' = without(cache, FillKeys)
       /\ (IsCall({"invalidateCache"}) /\ last'.id # <<>>)
              => cache' = without(cache, {getCacheKey(last'.prefix, last'.id)})
       /\ \A key \in ProbeKeys, other \in ProbeKeys :
              (IsCall({"set"}) /\ last'.key = key /\ other # key
                   /\ mapHas(cache', other))
                  => (mapHas(cache, other)
                          /\ mapGet(cache', other) = mapGet(cache, other))]_vars

\* invalidateCache('post') has just removed 'post:1' while 'posts:list' and
\* an entry of 'user:' stay cached
C12_Witness ==
    /\ last.op = "invalidateCache"
    /\ last.prefix = S_post
    /\ last.id = <<>>
    /\ last.removed
    /\ ~mapHas(cache, K_post1)
    /\ mapHas(cache, K_postsList)
    /\ \E key \in FillKeys : mapHas(cache, key)

(***************************************************************************)
(* Realtime events                                                         *)
(***************************************************************************)
\* the step ends a request of slot r whose handler logged its calls
EndsWithEffects(r) ==
    /\ req[r].pc # "idle"
    /\ req'[r].pc = "idle"
    /\ "effects" \in DOMAIN resp'[r]

C14_LikeIsPushed ==
    [][\A r \in Reqs :
           IsLikeSuccess(r) =>
               /\ \E e \in sent' : /\ e.event = "post-liked"
                                   /\ e.postId = resp'[r].id
               /\ \A s \in members(Everyone) :
                      /\ Len(inbox'[s]) > Len(inbox[s])
                      /\ inbox'[s][Len(inbox'[s])].event = "post-liked"]_vars

\* the step answers 200 to sendMessage on slot r, after its four emits
IsMessageSent(r) ==
    /\ req[r].pc = "sendMessage_created"
    /\ req'[r].pc = "idle"
    /\ resp'[r].status = 200

\* the events connection s receives in the step
received(s) == SubSeq(inbox'[s], Len(inbox[s]) + 1, Len(inbox'[s]))

\* how many events for the room of userId connection s receives in the step
receivedFor(s, userId) ==
    Cardinality({i \in 1..Len(received(s)) : received(s)[i].room = userId})

\* the connection is open and has authenticated as userId
IsRegisteredAs(s, userId) ==
    /\ sockets[s].state = "open"
    /\ userId \in sockets[s].rooms

\* the emit calls sendMessage makes to the room of userId: 'new-message' and
\* 'conversation-updated', to the receiver and to the sender
emitCalls(r, userId) ==
    (IF req[r].id = userId THEN 2 ELSE 0)
        + (IF req[r].session = userId THEN 2 ELSE 0)

\* C15: every connection registered as U receives each emit to U exactly
\* once, two connections registered as the same user both do, and a
\* connection that is not registered as U receives none of them; what a
\* connection received before stays as it was.
C15_EveryConnectionOnce ==
    [][\A r \in Reqs :
           IsMessageSent(r) =>
               \A s \in Sockets :
                   /\ Len(inbox'[s]) >= Len(inbox[s])
                   /\ SubSeq(inbox'[s], 1, Len(inbox[s])) = inbox[s]
                   /\ \A userId \in UserIds :
                          receivedFor(s, userId) =
                              IF IsRegisteredAs(s, userId)
                              THEN emitCalls(r, userId)
                              ELSE 0]_vars

\* two open connections are registered as u2 and as nobody else, and each has
\* received the two events of one message sent to u2 by u1
C15_Witness ==
    /\ \A s \in Sockets : sockets[s] = [state |-> "open", rooms |-> {U2}]
    /\ Len(messages) = 1
    /\ messages[1].receiverId = U2
    /\ messages[1].senderId = U1
    /\ \A s \in Sockets :
           /\ Len(inbox[s]) = 2
           /\ inbox[s][1].event = "new-message"
           /\ inbox[s][2].event = "conversation-updated"

\* userSockets.has(userId)
userSocketsHas(userId) ==
    \E i \in 1..Len(userSockets) : userSockets[i].userId = userId

\* C16: the registry holds an entry for a user exactly while at least one
\* open connection is registered as that user, whatever the order of the
\* authenticate and disconnect events was.
C16_RegistryTracksConnections ==
    \A userId \in UserIds :
        userSocketsHas(userId) <=>
            \E s \in Sockets : IsRegisteredAs(s, userId)

\* C17: an emit to a user nobody is registered as is a silent no-op: the
\* message is answered 200, no connection receives the receiver's events,
\* the registry, the connections and the cache stay as they were, and when
\* neither the sender is registered the inboxes do not change at all;
\* nothing is queued: a connection that opens, authenticates or closes
\* receives nothing in that step.
C17_EmitToNobodyIsNoOp ==
    [][/\ \A r \in Reqs :
              (/\ req[r].pc = "sendMessage_created"
               /\ req'[r].pc = "idle"
               /\ "emit" \notin fault
               /\ ~\E s \in Sockets : IsRegisteredAs(s, req[r].id))
                  => /\ resp'[r].status = 200
                     /\ \A s \in Sockets : receivedFor(s, req[r].id) = 0
                     /\ (~\E s \in Sockets : IsRegisteredAs(s, req[r].session))
                            => inbox' = inbox
                     /\ userSockets' = userSockets
                     /\ sockets' = sockets
                     /\ cache' = cache
       /\ (sockets' # sockets \/ userSockets' # userSockets)
              => inbox' = inbox]_vars

\* a message for u2 was sent and answered 200 while no connection was
\* registered as u2, and a connection that registered as u2 afterwards has
\* received nothing
C17_Witness ==
    /\ req[Writer].pc = "idle"
    /\ resp[Writer].route = "sendMessage"
    /\ resp[Writer].status = 200
    /\ Len(messages) = 1
    /\ messages[1].receiverId = U2
    /\ \E s \in Sockets : IsRegisteredAs(s, U2) /\ inbox[s] = <<>>
    /\ [room |-> U2, event |-> "conversation-updated"] \in sent

(***************************************************************************)
(* Ageing of cached answers                                                *)
(***************************************************************************)
\* the key and the ttl cacheMiddleware uses on the route of an answer
keyOf(answer) ==
    IF answer.route = "getPostById" THEN getCacheKey(S_post, answer.id)
    ELSE IF answer.route = "getRecentPosts"
    THEN getCacheKey(S_posts, answer.id)
    ELSE getCacheKey(S_user, answer.id)

ttlOf(route) ==
    IF route = "getPostById" THEN TTL_POST
    ELSE IF route = "getRecentPosts" THEN TTL_POSTS
    ELSE TTL_USER

CachedRoutes == {"getPostById", "getRecentPosts", "findUserById"}

\* the step answers a GET of slot r from the cache
IsHit(r) ==
    /\ req[r].pc = "idle"
    /\ resp'[r] # resp[r]
    /\ resp'[r].route \in CachedRoutes
    /\ resp'[r].hit

\* the step is a GET of slot r that misses and goes on to its handler
IsMiss(r) ==
    /\ req[r].pc = "idle"
    /\ req'[r].pc \in CachedRoutes

\* C18: an answer served from the cache is the body an entry was given at
\* most the route's ttl ago (2 for the feed, 3 for a post, 5 for a profile),
\* and serving it changes nothing in the cache, the entry's expiry included;
\* a GET whose entry is older than the ttl is not served from it and removes
\* it; every stored entry expires one ttl after it was stored.
C18_StalenessBoundedByTtl ==
    [][\A r \in Reqs :
           /\ IsHit(r) =>
                  /\ mapHas(cache, keyOf(resp'[r]))
                  /\ resp'[r].body = mapGet(cache, keyOf(resp'[r])).data
                  /\ now - mapGet(cache, keyOf(resp'[r])).createdAt
                         <= ttlOf(resp'[r].route)
                  /\ cache' = cache
           /\ (IsMiss(r) /\ mapHas(cache, req'[r].cacheKey)) =>
                  /\ now - mapGet(cache, req'[r].cacheKey).createdAt
                         > ttlOf(req'[r].pc)
                  /\ ~mapHas(cache', req'[r].cacheKey)
           /\ (req[r].pc \in CachedRoutes /\ req'[r].pc = "idle") =>
                  \A i \in 1..Len(cache') :
                      (cache'[i] \notin {cache[k] : k \in 1..Len(cache)})
                          => /\ cache'[i].key = req[r].cacheKey
                             /\ cache'[i].createdAt = now
                             /\ cache'[i].expiresAt
                                    = now + ttlOf(req[r].pc)]_vars

\* the last answer was a post served from the cache, and its entry has
\* reached the age of its ttl
C18_Witness ==
    /\ resp[Writer].route = "getPostById"
    /\ resp[Writer].hit
    /\ mapHas(cache, keyOf(resp[Writer]))
    /\ now - mapGet(cache, keyOf(resp[Writer])).createdAt = TTL_POST

\* C19: nothing separates the cache.get that misses from the cache.set of
\* the same request: while a GET of slot r is between its miss and its set,
\* the cache does not change and no other request reads the cache, stores
\* into it or invalidates it.
C19_MissAndSetAreOneTurn ==
    [][\A r \in Reqs :
           (req[r].pc \in CachedRoutes /\ req'[r] = req[r])
               => /\ cache' = cache
                  /\ \A q \in Reqs \ {r} :
                         /\ ~IsHit(q)
                         /\ ~IsMiss(q)
                         /\ ~(req[q].pc \in CachedRoutes
                                  /\ req'[q].pc = "idle")]_vars

(***************************************************************************)
(* Eviction                                                                *)
(***************************************************************************)
\* the keys other than the one being set that the step removes
evictedOthers ==
    {k \in mapKeys(cache) \ {last'.key} : ~mapHas(cache', k)}

\* C20: a set on a cache of MAX_CACHE_SIZE entries or more evicts exactly
\* floor(MAX_CACHE_SIZE * 0.1) entries before it inserts, none when the cache
\* is smaller; every evicted entry is at most as old, by createdAt, as every
\* entry that was there before and stays; the entry of the key being set can
\* itself be among the evicted.  A get leaves every entry it does not remove
\* exactly as it was, createdAt included.
C20_EvictsOldestTenth ==
    [][/\ IsCall({"set"}) =>
              /\ Len(cache) < MAX_CACHE_SIZE => evictedOthers = {}
              /\ Len(cache) >= MAX_CACHE_SIZE =>
                     /\ Cardinality(last'.evicted) = MAX_CACHE_SIZE \div 10
                     /\ evictedOthers = last'.evicted \ {last'.key}
                     /\ last'.evicted \subseteq mapKeys(cache)
                     /\ Len(cache') =
                            Len(cache) - (MAX_CACHE_SIZE \div 10)
                                + (IF mapHas(cache, last'.key)
                                       /\ last'.key \notin last'.evicted
                                   THEN 0 ELSE 1)
                     /\ \A gone \in last'.evicted,
                           kept \in mapKeys(cache) \ last'.evicted :
                            mapGet(cache, gone).createdAt
                                <= mapGet(cache, kept).createdAt
              /\ \A k \in mapKeys(cache') \ {last'.key} :
                     mapHas(cache, k) /\ mapGet(cache', k) = mapGet(cache, k)
       /\ IsCall({"get"}) =>
              \A k \in mapKeys(cache') :
                  mapHas(cache, k) /\ mapGet(cache', k) = mapGet(cache, k)]_vars

\* a set on a full cache has evicted 'post:1', the one entry older than all
\* the others
C20_Witness ==
    /\ last.op = "set"
    /\ last.key = K_postsList
    /\ last.evicted = {K_post1}
    /\ Len(cache) = MAX_CACHE_SIZE
    /\ \A i \in 1..Len(cache) : cache[i].createdAt >= 1

\* the keys of NamespaceKeys that belong to the namespace prefix
keysUnder(prefix) ==
    IF prefix = S_post THEN {K_post1, K_post1q, K_post2}
    ELSE IF prefix = S_posts THEN {K_postsList}
    ELSE {K_user1}

\* C21: invalidateCache(namespace, id) deletes the one key 'namespace:id'
\* and leaves every other entry as it was, 'post:1:q' included when
\* 'post:1' goes; invalidateCache(namespace) deletes the keys of the
\* namespace and leaves every other entry as it was.
C21_InvalidateOneOrAll ==
    [][IsCall({"invalidateCache"}) =>
           IF last'.id # <<>>
           THEN cache' = without(cache, {getCacheKey(last'.prefix, last'.id)})
           ELSE cache' = without(cache, keysUnder(last'.prefix))]_vars

\* invalidateCache('post', '1') has just removed 'post:1' while 'post:1:q',
\* 'post:2' and 'posts:list' stay cached
C21_Witness ==
    /\ last.op = "invalidateCache"
    /\ last.prefix = S_post
    /\ last.id = <<"1">>
    /\ last.removed
    /\ mapKeys(cache) = {K_post1q, K_post2, K_postsList}

\* C22: a GET answered from the cache ends there: the answer is the cached
\* value, the request is over without its handler having been entered (no
\* handler step and no store read is pending for it), and the cache and the
\* store are as they were.
C22_HitSkipsHandler ==
    [][\A r \in Reqs :
           IsHit(r) =>
               /\ resp'[r].body = mapGet(cache, keyOf(resp'[r])).data
               /\ req'[r] = Idle
               /\ cache' = cache
               /\ storeVars' = storeVars]_vars

\* the feed was answered from the cache some time after the entry was stored
C22_Witness ==
    /\ req[Writer] = Idle
    /\ resp[Writer].route = "getRecentPosts"
    /\ resp[Writer].hit
    /\ mapHas(cache, keyOf(resp[Writer]))
    /\ mapGet(cache, keyOf(resp[Writer])).createdAt < now
    /\ resp[Writer].body = mapGet(cache, keyOf(resp[Writer])).data

\* C23: no registry entry refers to a connection that has disconnected,
\* whatever the connection authenticated as before.
C23_NoEntryOfClosedConnection ==
    \A i \in 1..Len(userSockets) :
        sockets[userSockets[i].socketId].state # "closed"

(***************************************************************************)
(* Concurrent likes                                                        *)
(***************************************************************************)
\* the step is the updateOne of the like of slot r
IsLikeWrite(r) ==
    /\ req[r].pc = "likePost"
    /\ req'[r].pc = "likePost_updateOne"

\* C24: the likes a like leaves in the store are the array its client sent,
\* whatever the store held, and nothing else writes the likes; so of two
\* concurrent likes by two users the one written last erases the other,
\* while both are answered 200.
C24_LastLikeWriteWins ==
    [][/\ \A r \in Reqs :
              IsLikeWrite(r) => posts'[req[r].id].likes = req[r].likesArray
       /\ posts' # posts => \E r \in Reqs : IsLikeWrite(r)]_vars

\* both likes were answered 200 and the stored likes hold u2 only: the like
\* of u1 is lost
C24_Witness ==
    /\ \A r \in Reqs : /\ req[r] = Idle
                       /\ resp[r].route = "likePost"
                       /\ resp[r].status = 200
    /\ posts[P1].likes = <<U2>>

(***************************************************************************)
(* The sweep                                                               *)
(***************************************************************************)
\* the keys whose entries are expired at the time of the step
expiredKeys == {k \in mapKeys(cache) : now > mapGet(cache, k).expiresAt}

\* C25: cleanup deletes exactly the entries with now > expiresAt and returns
\* their number; every other entry stays with its value, createdAt and
\* expiresAt; getStats right after the sweep reports no expired entry and as
\* many active entries as there are entries.
C25_SweepRemovesExpiredOnly ==
    [][IsCall({"cleanup"}) =>
           /\ mapKeys(cache') = mapKeys(cache) \ expiredKeys
           /\ \A k \in mapKeys(cache') : mapGet(cache', k) = mapGet(cache, k)
           /\ last'.count = Cardinality(expiredKeys)
           /\ Len(cache') = Len(cache) - last'.count
           /\ getStats(cache', now').expired = 0
           /\ getStats(cache', now').active = Len(cache')]_vars

\* a sweep has removed an expired entry and kept an entry that expires at
\* this very instant
C25_Witness ==
    /\ last.op = "cleanup"
    /\ last.count >= 1
    /\ \E k \in ProbeKeys :
           mapHas(cache, k) /\ mapGet(cache, k).expiresAt = now

\* how many 'post-liked' events connection s receives in the step
likedReceived(s) ==
    Cardinality({i \in 1..Len(received(s)) :
                     received(s)[i].event = "post-liked"})

followsOf(followerId, followingId) ==
    {i \in 1..Len(follows) : /\ follows[i].follower = followerId
                             /\ follows[i].following = followingId}

\* C27: whatever follows and unfollows two clients make and however their
\* steps interleave, the follows collection holds at most one document for a
\* (follower, following) pair and none of a user following themself
C27_OneFollowPerPair ==
    /\ \A a \in UserIds, b \in UserIds : Cardinality(followsOf(a, b)) <= 1
    /\ \A i \in 1..Len(follows) : follows[i].follower # follows[i].following

\* two follows of U1 -> U2 were in flight together, both past findOne with
\* nothing found: one created the document and answered it, the other was
\* rejected by the store
C27_Witness ==
    /\ Cardinality(followsOf(U1, U2)) = 1
    /\ resp[Writer].route = "followUser" /\ resp[Writer].status = 200
    /\ resp[Reader].route = "followUser" /\ resp[Reader].status = 500
    /\ resp[Reader].id = U2 /\ resp[Writer].id = U2
    /\ resp[Reader].body = [error |-> "Failed to follow user"]
    /\ resp[Writer].body.follower = U1

(***************************************************************************)
(* What set leaves behind                                                  *)
(***************************************************************************)
\* the entries of key in the Map
entriesOf(c, key) == {i \in 1..Len(c) : c[i].key = key}

\* C28: set(k, v, ttl) leaves exactly one entry for k, holding v, created at
\* the time of the call and expiring ttl later, whether or not the call
\* evicted and whether or not k had an entry, evicted by this call or not;
\* with ttl > 0 a get(k) made right after returns v and removes nothing.
C28_SetLeavesFreshEntry ==
    [][IsCall({"set"}) =>
           /\ Cardinality(entriesOf(cache', last'.key)) = 1
           /\ mapGet(cache', last'.key) =
                  [key |-> last'.key, data |-> last'.data,
                   expiresAt |-> now + last'.ttl, createdAt |-> now]
           /\ last'.ttl > 0 =>
                  get(cache', now', last'.key) =
                      [ret |-> last'.data, cache |-> cache']]_vars

\* a set on a full cache whose key had the oldest entry: the call evicted
\* that entry and inserted the new one at the end of the Map
C28_Witness ==
    /\ last.op = "set"
    /\ last.key \in last.evicted
    /\ last.ttl > 0
    /\ Len(cache) = MAX_CACHE_SIZE
    /\ cache[Len(cache)].key = last.key
    /\ cache[Len(cache)].createdAt = now
    /\ now > 0

(***************************************************************************)
(* 'follow-updated'                                                        *)
(***************************************************************************)
\* the step answers 200 to the request of slot r for route
IsFollowAnswer(r, route) ==
    /\ req[r].pc # "idle"
    /\ req'[r].pc = "idle"
    /\ resp'[r].route = route
    /\ resp'[r].status = 200

\* the step made at least the two 'follow-updated' emits of action
emitsFollowUpdated(r, action) ==
    /\ Len(resp'[r].effects) >= 2
    /\ eventsOf(followUpdated(req[r].id, req[r].session, action))
           \subseteq sent'

\* C29: with a socket server at hand, a followUser that the store carried
\* out emits 'follow-updated' with action 'follow' to the rooms of both
\* users before it answers, whether or not the FOLLOW notification could be
\* created and loaded; a successful unfollowUser does the same with action
\* 'unfollow'.
C29_FollowUpdatedAlwaysEmitted ==
    [][\A r \in Reqs :
           /\ (io.follows /\ IsFollowAnswer(r, "followUser"))
                  => emitsFollowUpdated(r, "follow")
           /\ (io.follows /\ IsFollowAnswer(r, "unfollowUser"))
                  => emitsFollowUpdated(r, "unfollow")]_vars

(***************************************************************************)
(* The cascade of deleteUser                                               *)
(***************************************************************************)
\* the store holds nothing that refers to the user id: no post of theirs,
\* no like of theirs, no notification for a post that is gone, to them or
\* by them, no follow by or of them, no user document
NothingRefersTo(ps, ns, fs, us, id) ==
    /\ \A p \in DOMAIN ps :
           /\ ps[p].creator # id
           /\ \A i \in 1..Len(ps[p].likes) : ps[p].likes[i] # id
    /\ \A n \in ns :
           /\ n.user # id
           /\ n.actor # id
           /\ n.post # <<>> => n.post \in DOMAIN ps
    /\ \A i \in 1..Len(fs) : fs[i].follower # id /\ fs[i].following # id
    /\ id \notin DOMAIN us

\* C30: when deleteUser(U) answers 200 the store holds no post by U, no
\* notification attached to a post of U, no follow by or of U, no
\* notification to or by U, no likes array with U in it and no user U, also
\* when the requests of other clients, or of U in another tab, ran between
\* the steps of the cascade.
C30_CascadeLeavesNothing ==
    [][\A r \in Reqs :
           (/\ req[r].pc = "deleteUser_11"
            /\ req'[r].pc = "idle"
            /\ resp'[r].status = 200)
               => NothingRefersTo(posts', notifications', follows', users',
                                  req[r].id)]_vars

====
